---- MODULE Spec2Model ----
(***************************************************************************)
(* Model of the OMR attendance pipeline of the smart-attendance-system:    *)
(*   - common/circuit_breaker.py          (CircuitBreaker)                 *)
(*   - pdf-processing-service/processors/omr_processor.py (OMRProcessor)   *)
(*   - pdf-processing-service/processors/image_processor.py                *)
(*   - pdf-processing-service/app.py      (breaker demo endpoints)         *)
(*   - bubble-sheet-generator/app.py      (template endpoint)              *)
(*   - bubble-sheet-generator/generators  (pdf_generator, barcode_generator)*)
(*   - pdf-processing-service/processors/image_processor_zipgrade.py       *)
(*   - pdf-processing-service/processors/image_processor_old.py            *)
(*   - common/bulkhead.py                 (Bulkhead)                       *)
(*   - attendance-service/models/attendance.py (AttendanceRepository)      *)
(*                                                                         *)
(* Specifications:                                                         *)
(*   SpecCB    the shared breaker driven sequentially by the test-cb and   *)
(*             cb-reset endpoints while the wall clock advances            *)
(*   SpecJob   process_scanned_pdf: the page loop and the statistics       *)
(*   SpecSend  send_to_attendance_service: the record loop over the breaker*)
(*   SpecConc  two request threads inside CircuitBreaker.call at once      *)
(*   SpecProcess  POST /api/process: checks, job, row, submission, response *)
(*   SpecZip   the zipgrade page processor (dynamic bubble detection)       *)
(*   SpecBarcode  the barcode codec of the generator and read_barcode       *)
(*   SpecGen   generate_bubble_sheet: the page loop and the stored rows     *)
(*   SpecRecover  the breaker while the attendance service recovers (fair)  *)
(*   SpecSubmit  the submissions of successive uploads and final_status     *)
(*   SpecSheets  the generation service: POST /api/generate and the script  *)
(*   SpecBulkhead  callers of a function wrapped by Bulkhead.protect        *)
(*   SpecAttendance  request threads inside record_attendance               *)
(*   SpecGeometry  one page: marker frame, stored ratios, detector          *)
(***************************************************************************)
EXTENDS Integers, Sequences, FiniteSets, TLC

VARIABLES
    cb,          \* the CircuitBreaker object: state, failure_count, success_count, last_failure_time
    now,         \* datetime.now(), in whole seconds
    last,        \* history: the most recent operation on the breaker and what it did
    consecFail,  \* history: wrapped calls that failed in a row (no success or reset in between)
    halfSucc,    \* history: wrapped calls that succeeded in a row while the breaker was HALF_OPEN
    lastFailAt,  \* history: time at which a wrapped call last failed
    store,       \* the bubble_templates table, rows in insertion order
    pc,          \* process_scanned_pdf: "idle", "pages" (inside the page loop), "done", "failed"
    image_paths, \* process_scanned_pdf: number of page images of the upload
    page_num,    \* process_scanned_pdf: pages the loop has finished
    lecture_id,  \* process_scanned_pdf: the local lecture_id
    all_results, \* process_scanned_pdf: the attendance records collected so far
    result,      \* the dictionary process_scanned_pdf returns
    pageLog,     \* history: for each finished page, what happened to it
    send_pc,     \* send_to_attendance_service: "idle", "loop", "returned", "raised"
    attendance_records, \* send_to_attendance_service: the records to send
    sent,        \* send_to_attendance_service: records the loop has finished
    success_count,      \* send_to_attendance_service: local counter
    error_count,        \* send_to_attendance_service: local counter
    cb_rejected_count,  \* send_to_attendance_service: local counter
    errors,      \* send_to_attendance_service: the error_details list
    send_result, \* the dictionary send_to_attendance_service returns
    sendLog,     \* history: for each record sent, what the breaker did with it
    thread_pc,   \* for each request thread, its position inside CircuitBreaker.call
    thread_tmp,  \* for each request thread, the counter value it read for a += 1
    thread_outcome, \* for each request thread, how its call ended
    thread_probe,   \* history: whether the thread's call took the OPEN -> HALF_OPEN branch
    round_start, \* history: the breaker and the time when the two calls began
    req_pc,      \* process_scanned_sheet: "idle", "processing", "sending", "responded"
    request,     \* process_scanned_sheet: the upload request being handled
    job_id,      \* process_scanned_sheet: job ids drawn so far (the last one is the current job's)
    processing_jobs, \* the processing_jobs table, rows in insertion order
    reply,       \* the last response of process_scanned_sheet
    upload,      \* history: the breaker and the table when the current upload arrived, and
                 \* what became of the upload
    zip_pc,      \* zipgrade process_bubble_sheet_page: "start", "matching", "returned", "raised"
    zip_page,    \* zipgrade process_bubble_sheet_page: the scanned page and its templates
    detected_bubbles, \* zipgrade process_bubble_sheet_page: what detect_attendance_bubbles returned
    zip_results, \* zipgrade process_bubble_sheet_page: the results list
    bar_pc,      \* barcode codec: "idle", "printed", "decoded", "decoded_payload", "read"
    py_hash,     \* hash() of the generator process, on the lecture ids (randomised per process)
    _lecture_mapping, \* BarcodeGenerator._lecture_mapping (class attribute, in memory)
    barcode_mapping,  \* the barcode_mapping table: for each lecture_id its barcode_hash
    bar_sheet,   \* a printed page: the arguments of generate_barcode_data and the code
    bar_payload, \* the payload handed to the decoder
    bar_decoded, \* what the decoder returned or raised
    gen_pc,      \* generate_bubble_sheet: "start", "pages", "done"
    gen_students,    \* generate_bubble_sheet: the roster (student ids in roster order)
    gen_total_pages, \* generate_bubble_sheet: total_pages
    gen_page_num,    \* generate_bubble_sheet: pages the loop has finished
    gen_table,   \* the bubble_templates rows inserted by _save_bubble_coordinates
    gen_drawn,   \* history: for each finished page, the students drawn on it
    healthy,     \* whether the attendance service has recovered for good
    final_status, \* process endpoint: final_status of the response ("" while none)
    sheet_templates, \* generation service: the rows of table bubble_templates
    sheet_mapping,   \* generation service: the lecture ids of table barcode_mapping
    sheet_pdfs,      \* generation service: the PDF files written (by lecture id)
    sheet_uuids,     \* generation service: lecture ids issued by the endpoint so far
    sheet_runs,      \* generation service: generations requested so far
    sheet_reply,     \* generation service: the last response or returned dictionary
    sheet_last,      \* history: the last request and the stores as it found them
    bh_pc,           \* Bulkhead.protect wrapper: where each caller is
    _semaphore,      \* Bulkhead._semaphore: free permits
    _active_count,   \* Bulkhead._active_count
    _total_accepted, \* Bulkhead._total_accepted
    _total_rejected, \* Bulkhead._total_rejected
    bh_calls,        \* history: calls of the wrapper so far
    bh_raises,       \* history: calls whose protected function raised
    attendance_table, \* attendance service: the rows of table attendance_records
    att_pc,          \* record_attendance: where each request thread is
    att_args,        \* record_attendance: the arguments of each thread's call
    att_log,         \* history: the finished calls, with what they returned
    geo_pc,          \* one page from drawing to detection: "idle", "saving", "detecting", "done"
    geo_count,       \* the students on the page
    _bubble_area_bounds, \* BubbleSheetPDFGenerator._bubble_area_bounds
    geo_templates,   \* the rows _save_bubble_coordinates stored for the page
    geo_found        \* where the detector looked for each template's bubble

cbVars == <<cb, now, last, consecFail, halfSucc, lastFailAt>>

jobVars == <<store, pc, image_paths, page_num, lecture_id, all_results, result, pageLog>>

sendVars == <<send_pc, attendance_records, sent, success_count, error_count,
              cb_rejected_count, errors, send_result, sendLog>>

concVars == <<thread_pc, thread_tmp, thread_outcome, thread_probe, round_start>>

reqVars == <<req_pc, request, job_id, processing_jobs, reply, upload>>

zipVars == <<zip_pc, zip_page, detected_bubbles, zip_results>>

\* the variables of the parts that the breaker, job, sending and thread models leave alone
barVars == <<bar_pc, py_hash, _lecture_mapping, barcode_mapping, bar_sheet, bar_payload,
            bar_decoded>>

genVars == <<gen_pc, gen_students, gen_total_pages, gen_page_num, gen_table, gen_drawn>>

recVars == <<healthy>>

\* the variables of the parts modelled on their own
subVars == <<final_status>>

\* the variables of the specifications that follow SpecRecover
sheetVars == <<sheet_templates, sheet_mapping, sheet_pdfs, sheet_uuids, sheet_runs,
              sheet_reply, sheet_last>>

bhVars == <<bh_pc, _semaphore, _active_count, _total_accepted, _total_rejected, bh_calls,
           bh_raises>>

attVars == <<attendance_table, att_pc, att_args, att_log>>

geoVars == <<geo_pc, geo_count, _bubble_area_bounds, geo_templates, geo_found>>

lateVars == <<subVars, sheetVars, bhVars, attVars, geoVars>>

moreVars == <<recVars, lateVars>>

extVars == <<reqVars, zipVars, barVars, genVars, moreVars>>

vars == <<cbVars, jobVars, sendVars, concVars, extVars>>

----------------------------------------------------------------------------
(* Program constants *)

\* OMRProcessor.__init__: CircuitBreaker(name="attendance-service", failure_threshold=3, timeout=15, success_threshold=2)
failure_threshold == 3
timeout == 15
success_threshold == 2

(* Bounds of the model *)

\* the clock stops advancing here
MaxTime == 36
\* longest time a wrapped call takes between the admission check and its outcome
MaxCallDuration == 1
\* most pages in one uploaded document
MaxPages == 2
\* seconds by which the clock advances between two steps of a sending job
SendTickStep == 8
\* most uploads the process endpoint accepts for processing
MaxUploads == 2
\* most circles the Hough transform reports on a page of the zipgrade processor
MaxCircles == 3
\* most templates of a page given to the zipgrade processor
MaxZipStudents == 3
\* largest roster given to generate_bubble_sheet (three pages)
MaxStudents == 61

----------------------------------------------------------------------------
(* CircuitState *)

CLOSED == "closed"
OPEN == "open"
HALF_OPEN == "half_open"

CircuitState == {CLOSED, OPEN, HALF_OPEN}

\* last_failure_time = None
None == -1

----------------------------------------------------------------------------
(* CircuitBreaker *)

\* CircuitBreaker.__init__
NewBreaker ==
    [state |-> CLOSED, failure_count |-> 0, success_count |-> 0, last_failure_time |-> None]

\* variant of _should_attempt_reset: the reset is attempted already when exactly
\* timeout seconds have passed
_should_attempt_reset_AtTimeout(b, t) ==
    IF b.last_failure_time = None
    THEN FALSE
    ELSE (t - b.last_failure_time) >= timeout

\* variant of _should_attempt_reset: the timeout is taken for minutes
_should_attempt_reset_Minutes(b, t) ==
    IF b.last_failure_time = None
    THEN FALSE
    ELSE (t - b.last_failure_time) > 60 * timeout

\* CircuitBreaker._should_attempt_reset
_should_attempt_reset(b, t) ==
    IF b.last_failure_time = None
    THEN FALSE
    ELSE (t - b.last_failure_time) > timeout

Max(a, b) == IF a >= b THEN a ELSE b
Min(a, b) == IF a <= b THEN a ELSE b

\* CircuitBreaker._time_until_retry
_time_until_retry(b, t) ==
    IF b.last_failure_time = None
    THEN 0
    ELSE Max(0, timeout - (t - b.last_failure_time))

\* variant of _on_success: a success in CLOSED leaves failure_count as it is
_on_success_KeepsFailureCount(b) ==
    IF b.state = HALF_OPEN
    THEN LET b1 == [b EXCEPT !.success_count = @ + 1]
         IN  IF b1.success_count >= success_threshold
             THEN [b1 EXCEPT !.state = CLOSED, !.success_count = 0, !.failure_count = 0]
             ELSE b1
    ELSE b

\* CircuitBreaker._on_success
_on_success(b) ==
    IF b.state = HALF_OPEN
    THEN LET b1 == [b EXCEPT !.success_count = @ + 1]
         IN  IF b1.success_count >= success_threshold
             THEN [b1 EXCEPT !.state = CLOSED, !.success_count = 0, !.failure_count = 0]
             ELSE b1
    ELSE [b EXCEPT !.failure_count = 0]

\* variant of _on_failure: a failure in HALF_OPEN reopens the breaker but keeps
\* success_count
_on_failure_KeepsSuccessCount(b, t) ==
    LET b1 == [b EXCEPT !.failure_count = @ + 1, !.last_failure_time = t]
    IN  IF b1.state = HALF_OPEN
        THEN [b1 EXCEPT !.state = OPEN]
        ELSE IF b1.failure_count >= failure_threshold
             THEN [b1 EXCEPT !.state = OPEN]
             ELSE b1

\* CircuitBreaker._on_failure, run at time t
_on_failure(b, t) ==
    LET b1 == [b EXCEPT !.failure_count = @ + 1, !.last_failure_time = t]
    IN  IF b1.state = HALF_OPEN
        THEN [b1 EXCEPT !.state = OPEN, !.success_count = 0]
        ELSE IF b1.failure_count >= failure_threshold
             THEN [b1 EXCEPT !.state = OPEN]
             ELSE b1

\* variant of the admission check: when the cool-down has elapsed the breaker is
\* closed at once instead of going to HALF_OPEN
Admit_ClosesDirectly(b, t) ==
    IF b.state = OPEN
    THEN IF _should_attempt_reset(b, t)
         THEN [admitted |-> TRUE, cb |-> [b EXCEPT !.state = CLOSED]]
         ELSE [admitted |-> FALSE, cb |-> b]
    ELSE [admitted |-> TRUE, cb |-> b]

\* CircuitBreaker.call, lines 83-94: the check made before the wrapped function runs.
\* admitted = FALSE is the raise of the rejection error.
Admit(b, t) ==
    IF b.state = OPEN
    THEN IF _should_attempt_reset(b, t)
         THEN [admitted |-> TRUE, cb |-> [b EXCEPT !.state = HALF_OPEN]]
         ELSE [admitted |-> FALSE, cb |-> b]
    ELSE [admitted |-> TRUE, cb |-> b]

\* CircuitBreaker.call: the call starts at time t; the wrapped function, when it is
\* invoked, returns (funcOk) or raises (~funcOk) d seconds later.
\*   result  "ok" = the function's result is returned, "error" = its exception is
\*           re-raised, "rejected" = the rejection error is raised
\*   invoked whether the wrapped function was called
\*   during  the breaker's state while the wrapped function ran
call(b, t, funcOk, d) ==
    LET a == Admit(b, t)
    IN  IF ~a.admitted
        THEN [cb |-> a.cb, result |-> "rejected", invoked |-> FALSE, during |-> b.state, end |-> t]
        ELSE IF funcOk
             THEN [cb |-> _on_success(a.cb), result |-> "ok", invoked |-> TRUE,
                   during |-> a.cb.state, end |-> t + d]
             ELSE [cb |-> _on_failure(a.cb, t + d), result |-> "error", invoked |-> TRUE,
                   during |-> a.cb.state, end |-> t + d]

\* variant of reset that only closes the breaker and keeps its counters
reset_KeepsCounters(b) == [b EXCEPT !.state = CLOSED]

\* CircuitBreaker.reset
reset(b) ==
    [b EXCEPT !.state = CLOSED, !.failure_count = 0, !.success_count = 0,
              !.last_failure_time = None]

----------------------------------------------------------------------------
(* History of the breaker, kept beside the program's state *)

NoOp == [op |-> "none", pre |-> NewBreaker, at |-> 0, end |-> 0, result |-> "none",
         invoked |-> FALSE, during |-> CLOSED, preFailAt |-> None, preHalfSucc |-> 0,
         preConsecFail |-> 0]

\* the history after the breaker call r made at time t on breaker b
CallHistory(b, t, r) ==
    /\ last' = [op |-> "call", pre |-> b, at |-> t, end |-> r.end, result |-> r.result,
                invoked |-> r.invoked, during |-> r.during, preFailAt |-> lastFailAt,
                preHalfSucc |-> halfSucc, preConsecFail |-> consecFail]
    /\ consecFail' = IF r.result = "error" THEN consecFail + 1
                     ELSE IF r.result = "ok" THEN 0 ELSE consecFail
    /\ halfSucc' = IF r.result = "ok" /\ r.during = HALF_OPEN THEN halfSucc + 1
                   ELSE IF r.invoked THEN 0 ELSE halfSucc
    /\ lastFailAt' = IF r.result = "error" THEN r.end ELSE lastFailAt

\* the breaker and its history right after OMRProcessor.__init__
BreakerStart ==
    /\ cb = NewBreaker
    /\ now = 0
    /\ last = NoOp
    /\ consecFail = 0
    /\ halfSucc = 0
    /\ lastFailAt = None

\* no dictionary returned yet
NoResult == [status |-> "none"]

\* no upload is being processed
JobIdle ==
    /\ store = <<>>
    /\ pc = "idle"
    /\ image_paths = 0
    /\ page_num = 0
    /\ lecture_id = ""
    /\ all_results = <<>>
    /\ result = NoResult
    /\ pageLog = <<>>

\* the request threads that can be inside CircuitBreaker.call at the same time
Threads == {1, 2}

\* no request thread is inside CircuitBreaker.call
ThreadsIdle ==
    /\ thread_pc = [t \in Threads |-> "idle"]
    /\ thread_tmp = [t \in Threads |-> 0]
    /\ thread_outcome = [t \in Threads |-> "none"]
    /\ thread_probe = [t \in Threads |-> FALSE]
    /\ round_start = [cb |-> NewBreaker, at |-> 0]

\* no response sent yet
NoResponse == [code |-> 0, status |-> "none", job_id |-> 0, total_students |-> 0]

\* no upload received yet
NoRequest == [has_file |-> FALSE, filename |-> <<>>, send_to_attendance |-> FALSE]

\* no upload is being handled
NoUpload == [cb |-> NewBreaker, table |-> <<>>, outcome |-> "none", submitted |-> FALSE,
             at |-> 0, stored |-> FALSE]

\* the process endpoint has handled no upload
ReqIdle ==
    /\ req_pc = "idle"
    /\ request = NoRequest
    /\ job_id = 0
    /\ processing_jobs = <<>>
    /\ reply = NoResponse
    /\ upload = NoUpload

\* no page is given to the zipgrade processor
NoPage == [readable |-> FALSE, calibration |-> FALSE, circles |-> <<>>, bubble_templates |-> <<>>]

\* the zipgrade processor is not in use
ZipIdle ==
    /\ zip_pc = "idle"
    /\ zip_page = NoPage
    /\ detected_bubbles = <<>>
    /\ zip_results = <<>>

\* no page is printed
NoSheet == [lecture_id |-> <<>>, page |-> 0, total_pages |-> 0, code |-> <<>>]

\* nothing is decoded
NoDecoded == [kind |-> "none"]

\* the barcode codec is not in use
BarIdle ==
    /\ bar_pc = "idle"
    /\ py_hash = <<>>
    /\ _lecture_mapping = <<>>
    /\ barcode_mapping = <<>>
    /\ bar_sheet = NoSheet
    /\ bar_payload = <<>>
    /\ bar_decoded = NoDecoded

\* the sheet generator is not in use
GenIdle ==
    /\ gen_pc = "idle"
    /\ gen_students = <<>>
    /\ gen_total_pages = 0
    /\ gen_page_num = 0
    /\ gen_table = <<>>
    /\ gen_drawn = <<>>

\* the attendance service is not known to have recovered
RecIdle == healthy = FALSE

\* no response of the process endpoint is being computed
SubIdle == final_status = ""

\* the generation service has handled no request
SheetIdle ==
    /\ sheet_templates = <<>>
    /\ sheet_mapping = {}
    /\ sheet_pdfs = {}
    /\ sheet_uuids = 0
    /\ sheet_runs = 0
    /\ sheet_reply = [code |-> 0, status |-> "none", error |-> "none"]
    /\ sheet_last = [op |-> "none"]

\* callers of the bulkhead
MaxCallers == 3

Callers == 1..MaxCallers

\* Bulkhead(max_concurrent=...): permits of the bulkhead of the model
max_concurrent == 2

\* Bulkhead.__init__: all permits free, no caller in the wrapper
BulkheadStart ==
    /\ bh_pc = [t \in Callers |-> "idle"]
    /\ _semaphore = max_concurrent
    /\ _active_count = 0
    /\ _total_accepted = 0
    /\ _total_rejected = 0
    /\ bh_calls = 0
    /\ bh_raises = 0

\* request threads of the attendance service
MaxAttThreads == 2

AttThreads == 1..MaxAttThreads

\* no arguments (the thread is in no call)
NoArgs == [student_id |-> <<>>, course_id |-> <<>>, date |-> <<>>, status |-> "none",
           session_name |-> [is_none |-> TRUE, text |-> <<>>]]

\* AttendanceRepository.__init__: the table is empty, no call is in progress
AttendanceStart ==
    /\ attendance_table = <<>>
    /\ att_pc = [t \in AttThreads |-> "idle"]
    /\ att_args = [t \in AttThreads |-> NoArgs]
    /\ att_log = <<>>

\* getattr(self, '_bubble_area_bounds', None) before any page was drawn
NoBounds == [set |-> FALSE, top_y |-> 0, bottom_y |-> 0, left_x |-> 0, right_x |-> 0]

\* no page has been drawn
GeoIdle ==
    /\ geo_pc = "idle"
    /\ geo_count = 0
    /\ _bubble_area_bounds = NoBounds
    /\ geo_templates = <<>>
    /\ geo_found = <<>>

LateIdle ==
    /\ SubIdle
    /\ SheetIdle
    /\ BulkheadStart
    /\ AttendanceStart
    /\ GeoIdle

\* the parts modelled on their own are at rest
MoreIdle ==
    /\ RecIdle
    /\ LateIdle

\* the parts outside the breaker, job, sending and thread models are at rest
ExtIdle ==
    /\ ReqIdle
    /\ ZipIdle
    /\ BarIdle
    /\ GenIdle
    /\ MoreIdle

\* no job is sending records
SendIdle ==
    /\ send_pc = "idle"
    /\ attendance_records = <<>>
    /\ sent = 0
    /\ success_count = 0
    /\ error_count = 0
    /\ cb_rejected_count = 0
    /\ errors = <<>>
    /\ send_result = NoResult
    /\ sendLog = <<>>

----------------------------------------------------------------------------
(* Template store: BubbleSheetPDFGenerator and GET /api/templates/<lecture_id> *)

\* BubbleSheetPDFGenerator.__init__
students_per_page == 30

\* generate_bubble_sheet with _save_bubble_coordinates: one row per student, inserted
\* page by page in roster order; students is the list of the students' ids.
\* The student at roster position i is on page (i-1) // students_per_page + 1 and has
\* row_number (page-1) * students_per_page + (position on the page) = i.
generate_bubble_sheet(table, lecture, students) ==
    table \o [i \in 1..Len(students) |->
                [lecture_id |-> lecture,
                 page_number |-> ((i - 1) \div students_per_page) + 1,
                 student_id |-> students[i],
                 row_number |-> i]]

\* ORDER BY page_number, row_number
OrderKeyLeq(r1, r2) ==
    \/ r1.page_number < r2.page_number
    \/ r1.page_number = r2.page_number /\ r1.row_number <= r2.row_number

\* variant of the template query without ORDER BY: rows in insertion order
SelectTemplates_Unordered(table, lecture) ==
    LET InLecture(r) == r.lecture_id = lecture
    IN  {SelectSeq(table, InLecture)}

\* SELECT * FROM bubble_templates WHERE lecture_id = ? ORDER BY page_number, row_number:
\* the orders the query may return (rows with equal keys come in any order)
SelectTemplates(table, lecture) ==
    LET InLecture(r) == r.lecture_id = lecture
        rows == SelectSeq(table, InLecture)
        n == Len(rows)
    IN  { [i \in 1..n |-> rows[p[i]]] :
            p \in { q \in Permutations(1..n) :
                      \A i, j \in 1..n : i < j => OrderKeyLeq(rows[q[i]], rows[q[j]]) } }

\* get_bubble_templates (endpoint): 404 when the lecture has no row, else 200 and the rows
get_bubble_templates(templates) ==
    IF templates = <<>>
    THEN [status_code |-> 404, templates |-> <<>>]
    ELSE [status_code |-> 200, templates |-> templates]

----------------------------------------------------------------------------
(* OMRProcessor.process_scanned_pdf *)

\* ImageProcessor.__init__: bubble_fill_threshold = 0.50, in percent
bubble_fill_threshold == 50

\* fill fractions (percent of dark pixels in the mask) a scanned bubble may show
FillLevels == {49, 50}

Lectures == {"L1", "L2", "L9"}
NoBarcode == [lecture_id |-> "", page |-> 0]
\* what read_barcode returns for a page image; NoBarcode = it raises
Barcodes == {NoBarcode} \cup [lecture_id : Lectures, page : 1..2]

\* outcome of requests.get in fetch_bubble_templates
NetOutcomes == {"ok", "timeout", "http_500"}

\* OMRProcessor.fetch_bubble_templates: raises (ok = FALSE) on a request exception or a
\* status other than 200, else returns the templates of the page
fetch_bubble_templates(net, response, page_number) ==
    IF net = "timeout" THEN [ok |-> FALSE, templates |-> <<>>]
    ELSE IF net = "http_500" \/ response.status_code # 200 THEN [ok |-> FALSE, templates |-> <<>>]
    ELSE LET OnPage(t) == t.page_number = page_number
         IN  [ok |-> TRUE, templates |-> SelectSeq(response.templates, OnPage)]

\* variant of the fill test: a bubble counts as filled only above the threshold
IsFilled_Strict(fill_percentage) == fill_percentage > bubble_fill_threshold

\* ImageProcessor.check_bubble_by_timing_mark: is_filled
IsFilled(fill_percentage) == fill_percentage >= bubble_fill_threshold

\* ImageProcessor.process_bubble_sheet_page, lines 290-300: confidence, in percent
Confidence(fill_percentage) ==
    LET c == IF IsFilled(fill_percentage)
             THEN Min((fill_percentage * 100) \div bubble_fill_threshold, 100)
             ELSE 100 - ((fill_percentage * 100) \div bubble_fill_threshold)
    IN  Max(0, Min(100, c))

\* numbers of square contours a scanned page may show in the marker band
SquareCounts == {0, 3, 4}

\* ImageProcessor.find_corner_markers: None when fewer than 4 squares are found, else the
\* 4 corners (here their number)
find_corner_markers(squares) == IF squares < 4 THEN None ELSE 4

\* process_bubble_sheet_page, lines 228-249: where the bubbles are looked for.  With
\* corner markers the positions of the bubbles found on the page are used, without
\* them the list is empty and every row is checked at its expected position.
BubblePositions(corner_markers) ==
    IF corner_markers # None THEN "detected" ELSE "expected"

\* ImageProcessor.process_bubble_sheet_page: one BubbleDetectionResult per template, in
\* template order; fills[idx] is the fill fraction measured at the idx-th row position
process_bubble_sheet_page(bubble_templates, fills) ==
    [idx \in 1..Len(bubble_templates) |->
        [student_id |-> bubble_templates[idx].student_id,
         is_filled |-> IsFilled(fills[idx]),
         confidence |-> Confidence(fills[idx]),
         fill_percentage |-> fills[idx]]]

\* process_scanned_pdf, lines 322-335: detection results to attendance records
AttendanceRecords(detection_results, lecture) ==
    [i \in 1..Len(detection_results) |->
        [student_id |-> detection_results[i].student_id,
         lecture_id |-> lecture,
         status |-> IF detection_results[i].is_filled THEN "present" ELSE "absent",
         confidence |-> detection_results[i].confidence,
         fill_percentage |-> detection_results[i].fill_percentage]]

\* One iteration of the page loop, lines 292-348.  img is the scanned page:
\*   barcode  what read_barcode decodes, net  the outcome of the template request,
\*   response  the template service's answer, detect_ok  whether bubble detection
\*   returns, squares  the square contours found in the marker band, fills  the
\*   fill fractions on the page, viz_ok  whether visualize_detection returns.
\* error names the step whose exception the except clause caught ("" = none).
ProcessPage(img, lecture) ==
    IF img.barcode = NoBarcode
    THEN [lecture_id |-> lecture, templates |-> <<>>, added |-> <<>>, positions |-> "none",
          error |-> "barcode"]
    ELSE LET lec == img.barcode.lecture_id
             f == fetch_bubble_templates(img.net, img.response, img.barcode.page)
         IN  IF ~f.ok
             THEN [lecture_id |-> lec, templates |-> <<>>, added |-> <<>>,
                   positions |-> "none", error |-> "fetch"]
             ELSE IF f.templates = <<>>
             THEN [lecture_id |-> lec, templates |-> <<>>, added |-> <<>>,
                   positions |-> "none", error |-> "no_template"]
             ELSE IF ~img.detect_ok
             THEN [lecture_id |-> lec, templates |-> f.templates, added |-> <<>>,
                   positions |-> "none", error |-> "detection"]
             ELSE [lecture_id |-> lec, templates |-> f.templates,
                   positions |-> BubblePositions(find_corner_markers(img.squares)),
                   added |-> AttendanceRecords(
                                process_bubble_sheet_page(f.templates, img.fills), lec),
                   error |-> IF img.viz_ok THEN "" ELSE "visualization"]

\* variant of the except clause: break, the first failing page ends the loop
AfterPage_Break(n, total, error) == IF error = "" THEN n + 1 ELSE total

\* the index of the loop after a page: the next page, also when the except clause
\* caught an error (continue)
AfterPage(n, total, error) == n + 1

\* sum(1 for r in all_results if r['status'] == 'present')
RECURSIVE CountPresent(_)
CountPresent(records) ==
    IF records = <<>> THEN 0
    ELSE (IF Head(records).status = "present" THEN 1 ELSE 0) + CountPresent(Tail(records))

\* round(n / d, 0) of the exact quotient, ties to even
RoundHalfEven(n, d) ==
    LET q == n \div d
        r == n % d
    IN  IF 2 * r < d THEN q
        ELSE IF 2 * r > d THEN q + 1
        ELSE IF q % 2 = 0 THEN q ELSE q + 1

\* variant of the percentage: truncated to two decimals instead of rounded
AttendancePercentage_Truncated(present_count, total_students) ==
    IF total_students > 0 THEN (present_count * 10000) \div total_students ELSE 0

\* round(present_count / total_students * 100, 2), in hundredths of a percent
AttendancePercentage(present_count, total_students) ==
    IF total_students > 0 THEN RoundHalfEven(present_count * 10000, total_students) ELSE 0

\* process_scanned_pdf, lines 350-365
Statistics(records, lecture, pages) ==
    LET total_students == Len(records)
        present_count == CountPresent(records)
        absent_count == total_students - present_count
    IN  [lecture_id |-> lecture,
         total_pages |-> pages,
         total_students |-> total_students,
         present |-> present_count,
         absent |-> absent_count,
         attendance_percentage |-> AttendancePercentage(present_count, total_students),
         attendance_records |-> records,
         status |-> "success"]

\* template tables the generator can have produced
Stores ==
    { <<>>,
      generate_bubble_sheet(generate_bubble_sheet(<<>>, "L1", <<"s1", "s2">>), "L2", <<"s3">>),
      generate_bubble_sheet(generate_bubble_sheet(<<>>, "L1", <<"s1", "s2">>), "L1", <<"s2">>) }

\* the template table of the jobs in SpecSend: two lectures, three students
SendStore ==
    generate_bubble_sheet(generate_bubble_sheet(<<>>, "L1", <<"s1", "s2">>), "L2", <<"s3">>)

InitJob ==
    /\ BreakerStart
    /\ ExtIdle
    /\ ThreadsIdle
    /\ SendIdle
    /\ store \in Stores
    /\ pc = "idle"
    /\ image_paths = 0
    /\ page_num = 0
    /\ lecture_id = ""
    /\ all_results = <<>>
    /\ result = NoResult
    /\ pageLog = <<>>

\* the values an input of the detection step may take on a page: all of them when the
\* page gets as far as bubble detection, else one value, which nothing reads
PageInputs(barcode, net, detect_ok, values, unread) ==
    IF barcode # NoBarcode /\ net = "ok" /\ detect_ok THEN values ELSE {unread}

\* line 285: convert_pdf_to_images returns the images of a document whose number of
\* pages is one of page_counts, or raises
convert_pdf_to_images(page_counts) ==
    /\ pc = "idle"
    /\ \/ \E n \in page_counts :
             /\ image_paths' = n
             /\ pc' = "pages"
       \/ /\ pc' = "failed"
          /\ UNCHANGED image_paths
    /\ UNCHANGED <<store, page_num, lecture_id, all_results, result, pageLog>>

\* line 285 in a job of SpecJob
ConvertPdfToImages == convert_pdf_to_images(0..MaxPages)

\* lines 292-348: the loop body for the next page
PageStep ==
    /\ pc = "pages"
    /\ page_num < image_paths
    /\ \E barcode \in Barcodes, net \in NetOutcomes :
       \E templates \in SelectTemplates(store, barcode.lecture_id) :
       \E detect_ok \in BOOLEAN :
       \E viz_ok \in PageInputs(barcode, net, detect_ok, BOOLEAN, TRUE),
          squares \in PageInputs(barcode, net, detect_ok, SquareCounts, 4) :
       \E fills \in PageInputs(barcode, net, detect_ok, [1..Len(templates) -> FillLevels],
                               [i \in 1..Len(templates) |-> 0]) :
          LET img == [barcode |-> barcode, net |-> net,
                      response |-> get_bubble_templates(templates),
                      detect_ok |-> detect_ok, squares |-> squares, fills |-> fills,
                      viz_ok |-> viz_ok]
              r == ProcessPage(img, lecture_id)
          IN  /\ lecture_id' = r.lecture_id
              /\ all_results' = all_results \o r.added
              /\ page_num' = AfterPage(page_num, image_paths, r.error)
              /\ pageLog' = Append(pageLog,
                                   [barcode |-> barcode, error |-> r.error,
                                    templates |-> r.templates,
                                    fills |-> IF r.error \in {"", "visualization"}
                                              THEN fills ELSE <<>>,
                                    fourMarkers |-> IF r.error \in {"", "visualization"}
                                                    THEN squares >= 4 ELSE FALSE,
                                    positions |-> r.positions,
                                    before |-> Len(all_results)])
    /\ UNCHANGED <<store, pc, image_paths, result>>

\* lines 350-365: statistics and the returned dictionary
FinishJob ==
    /\ pc = "pages"
    /\ page_num >= image_paths
    /\ result' = Statistics(all_results, lecture_id, image_paths)
    /\ pc' = "done"
    /\ UNCHANGED <<store, image_paths, page_num, lecture_id, all_results, pageLog>>

NextJob ==
    \/ ConvertPdfToImages /\ UNCHANGED <<cbVars, sendVars, concVars, extVars>>
    \/ PageStep /\ UNCHANGED <<cbVars, sendVars, concVars, extVars>>
    \/ FinishJob /\ UNCHANGED <<cbVars, sendVars, concVars, extVars>>

SpecJob == InitJob /\ [][NextJob]_vars

----------------------------------------------------------------------------
(* SpecCB: the breaker used one request at a time *)

InitCB ==
    /\ BreakerStart
    /\ ExtIdle
    /\ ThreadsIdle
    /\ JobIdle
    /\ SendIdle

\* POST /api/pdf/test-cb: one wrapped call to the attendance service
TestCircuitBreaker ==
    \E funcOk \in BOOLEAN, d \in 0..MaxCallDuration :
        /\ now + d <= MaxTime
        /\ LET r == call(cb, now, funcOk, d)
           IN  /\ cb' = r.cb
               /\ now' = r.end
               /\ CallHistory(cb, now, r)

\* POST /api/pdf/cb-reset
ResetCircuitBreaker ==
    /\ cb' = reset(cb)
    /\ last' = [NoOp EXCEPT !.op = "reset", !.pre = cb, !.at = now, !.end = now]
    /\ consecFail' = 0
    /\ halfSucc' = 0
    /\ UNCHANGED <<now, lastFailAt>>

\* the wall clock advances by a second
Tick ==
    /\ now < MaxTime
    /\ now' = now + 1
    /\ UNCHANGED <<cb, last, consecFail, halfSucc, lastFailAt>>

NextCB ==
    \/ TestCircuitBreaker /\ UNCHANGED <<jobVars, sendVars, concVars, extVars>>
    \/ ResetCircuitBreaker /\ UNCHANGED <<jobVars, sendVars, concVars, extVars>>
    \/ Tick /\ UNCHANGED <<jobVars, sendVars, concVars, extVars>>

SpecCB == InitCB /\ [][NextCB]_vars

----------------------------------------------------------------------------
(* OMRProcessor.send_to_attendance_service *)

\* text as Python strings: sequences of characters
RejectionPrefix ==
    <<"C", "i", "r", "c", "u", "i", "t", " ", "b", "r", "e", "a", "k", "e", "r", " ", "[",
      "a", "t", "t", "e", "n", "d", "a", "n", "c", "e", "-", "s", "e", "r", "v", "i", "c",
      "e", "]", " ", "i", "s", " ", "O", "P", "E", "N", " ", "-", " ", "s", "e", "r", "v",
      "i", "c", "e", " ", "u", "n", "a", "v", "a", "i", "l", "a", "b", "l", "e", " ", "(",
      "r", "e", "t", "r", "y", " ", "i", "n", " ">>

RejectionSuffix == <<"s", ")">>

\* the text looked for in the error message, line 408
CircuitIsOpenText ==
    <<"c", "i", "r", "c", "u", "i", "t", " ", "i", "s", " ", "O", "P", "E", "N">>

HttpErrorMessage ==
    <<"H", "T", "T", "P", " ", "5", "0", "0", ":", " ", "I", "n", "t", "e", "r", "n", "a",
      "l", " ", "S", "e", "r", "v", "e", "r", " ", "E", "r", "r", "o", "r">>

ConnectionErrorMessage ==
    <<"C", "o", "n", "n", "e", "c", "t", "i", "o", "n", " ", "r", "e", "f", "u", "s", "e",
      "d">>

DigitChars == <<"0", "1", "2", "3", "4", "5", "6", "7", "8", "9">>

\* str(n) for n >= 0
RECURSIVE Str(_)
Str(n) == IF n < 10 THEN <<DigitChars[n + 1]>> ELSE Str(n \div 10) \o <<DigitChars[(n % 10) + 1]>>

\* needle in hay
Contains(hay, needle) ==
    \E i \in 1..(Len(hay) - Len(needle) + 1) : SubSeq(hay, i, i + Len(needle) - 1) = needle

\* CircuitBreaker.call, lines 90-94: the message of the rejection error
RejectionMessage(b, t) ==
    RejectionPrefix \o Str(_time_until_retry(b, t)) \o RejectionSuffix

\* variant of the classification: only HTTP status errors are counted as errors,
\* other exceptions of the request are not counted at all
CountedAs_HttpOnly(error_msg) ==
    IF Contains(error_msg, CircuitIsOpenText) THEN "cb_rejected"
    ELSE IF Contains(error_msg, <<"H", "T", "T", "P">>) THEN "errors"
    ELSE "none"

\* lines 407-411: the counter an exception with this message is added to
CountedAs(error_msg) ==
    IF Contains(error_msg, CircuitIsOpenText) THEN "cb_rejected" ELSE "errors"

\* outcomes of send_single_record: the response is 200/201, or the function raises
SendOutcomes ==
    { [ok |-> TRUE, msg |-> <<>>],
      [ok |-> FALSE, msg |-> HttpErrorMessage],
      [ok |-> FALSE, msg |-> ConnectionErrorMessage] }

\* fill fractions of the sheets sent in SpecSend: rows are filled alternately
AlternateFills(n) == [i \in 1..n |-> IF i % 2 = 1 THEN 50 ELSE 49]

\* the records of one detected page of a lecture
PageRecordLists(table) ==
    UNION { { AttendanceRecords(process_bubble_sheet_page(t, AlternateFills(Len(t))), lec) :
                t \in SelectTemplates(table, lec) } : lec \in Lectures }

\* the non-empty record lists process_scanned_pdf can return for uploads of one or
\* two detected pages (app.py line 164 sends only a non-empty list)
RecordLists(table) ==
    { l \in PageRecordLists(table) \cup
            { a \o b : a \in PageRecordLists(table), b \in PageRecordLists(table) } :
        l # <<>> }

InitSend ==
    /\ BreakerStart
    /\ ExtIdle
    /\ ThreadsIdle
    /\ JobIdle
    /\ SendIdle

\* app.py line 169: a job calls send_to_attendance_service; lines 384-387
StartSend ==
    /\ send_pc \in {"idle", "returned"}
    /\ \E records \in RecordLists(SendStore) : attendance_records' = records
    /\ send_pc' = "loop"
    /\ sent' = 0
    /\ success_count' = 0
    /\ error_count' = 0
    /\ cb_rejected_count' = 0
    /\ errors' = <<>>
    /\ send_result' = NoResult
    /\ sendLog' = <<>>
    /\ UNCHANGED cbVars

\* lines 389-415: the loop body for the next record.  The wrapped request takes no
\* time here; time passes between the steps of the job (SendTick).
SendRecord ==
    /\ send_pc = "loop"
    /\ sent < Len(attendance_records)
    /\ \E out \in SendOutcomes :
          LET record == attendance_records[sent + 1]
              r == call(cb, now, out.ok, 0)
              error_msg == IF r.result = "rejected" THEN RejectionMessage(cb, now)
                           ELSE out.msg
              counted == IF r.result = "ok" THEN "success" ELSE CountedAs(error_msg)
              handled == r.result = "ok" \/ "student_id" \in DOMAIN record
          IN  /\ cb' = r.cb
              /\ now' = r.end
              /\ CallHistory(cb, now, r)
              /\ success_count' = success_count + (IF counted = "success" THEN 1 ELSE 0)
              /\ cb_rejected_count' =
                     cb_rejected_count + (IF counted = "cb_rejected" THEN 1 ELSE 0)
              /\ error_count' = error_count + (IF counted = "errors" THEN 1 ELSE 0)
              /\ errors' = IF r.result # "ok" /\ handled
                           THEN Append(errors, [student_id |-> record.student_id,
                                                error |-> error_msg])
                           ELSE errors
              /\ send_pc' = IF handled THEN "loop" ELSE "raised"
              /\ sent' = sent + 1
              /\ sendLog' = Append(sendLog,
                                   [record |-> record, result |-> r.result,
                                    invoked |-> r.invoked, counted |-> counted,
                                    preState |-> cb.state, postState |-> r.cb.state,
                                    coolingDown |-> /\ cb.last_failure_time # None
                                                    /\ now - cb.last_failure_time <= timeout])
    /\ UNCHANGED <<attendance_records, send_result>>

\* lines 417-425: the returned dictionary
ReturnSendResult ==
    /\ send_pc = "loop"
    /\ sent >= Len(attendance_records)
    /\ send_result' =
          [total_records |-> Len(attendance_records),
           success |-> success_count,
           errors |-> error_count,
           cb_rejected |-> cb_rejected_count,
           circuit_breaker_state |-> cb.state,
           error_details |-> errors,
           status |-> IF error_count = 0 /\ cb_rejected_count = 0
                      THEN "success" ELSE "partial_success"]
    /\ send_pc' = "returned"
    /\ UNCHANGED <<attendance_records, sent, success_count, error_count, cb_rejected_count,
                   errors, sendLog>>
    /\ UNCHANGED cbVars

\* time passes while a job is sending or between two jobs
SendTick ==
    /\ now + SendTickStep <= MaxTime
    /\ now' = now + SendTickStep
    /\ UNCHANGED <<cb, last, consecFail, halfSucc, lastFailAt>>
    /\ UNCHANGED sendVars

NextSend ==
    \/ StartSend /\ UNCHANGED <<jobVars, concVars, extVars>>
    \/ SendRecord /\ UNCHANGED <<jobVars, concVars, extVars>>
    \/ ReturnSendResult /\ UNCHANGED <<jobVars, concVars, extVars>>
    \/ SendTick /\ UNCHANGED <<jobVars, concVars, extVars>>

SpecSend == InitSend /\ [][NextSend]_vars

----------------------------------------------------------------------------
(* SpecConc: two request threads of the Flask server call the shared breaker *)
(* (omr_processor.attendance_cb, app.py lines 30-33) at the same time.       *)
(* CircuitBreaker takes no lock, so the threads interleave between the reads *)
(* and writes of its attributes.                                             *)

InitConc ==
    /\ BreakerStart
    /\ ExtIdle
    /\ JobIdle
    /\ SendIdle
    /\ ThreadsIdle

AllIdle == \A t \in Threads : thread_pc[t] = "idle"

\* one request at a time: a call that runs from start to end with no other thread
SoloCall ==
    /\ AllIdle
    /\ \E funcOk \in BOOLEAN :
          cb' = call(cb, now, funcOk, 0).cb
    /\ UNCHANGED <<now, last, consecFail, halfSucc, lastFailAt>>
    /\ UNCHANGED concVars

\* time passes while no call is running
IdleTick ==
    /\ AllIdle
    /\ SendTick
    /\ UNCHANGED concVars

\* two requests arrive together: both threads enter CircuitBreaker.call
BeginCalls ==
    /\ AllIdle
    /\ thread_pc' = [t \in Threads |-> "check_state"]
    /\ thread_tmp' = [t \in Threads |-> 0]
    /\ thread_outcome' = [t \in Threads |-> "none"]
    /\ thread_probe' = [t \in Threads |-> FALSE]
    /\ round_start' = [cb |-> cb, at |-> now]
    /\ UNCHANGED cbVars

\* line 84: if self.state == CircuitState.OPEN
CheckState(t) ==
    /\ thread_pc[t] = "check_state"
    /\ thread_pc' = [thread_pc EXCEPT ![t] = IF cb.state = OPEN THEN "check_reset" ELSE "func"]
    /\ UNCHANGED <<cbVars, thread_tmp, thread_outcome, thread_probe, round_start>>

\* lines 85, 89-94: if self._should_attempt_reset() ... else raise the rejection
CheckReset(t) ==
    /\ thread_pc[t] = "check_reset"
    /\ IF _should_attempt_reset(cb, now)
       THEN /\ thread_pc' = [thread_pc EXCEPT ![t] = "set_half_open"]
            /\ UNCHANGED thread_outcome
       ELSE /\ thread_pc' = [thread_pc EXCEPT ![t] = "done"]
            /\ thread_outcome' = [thread_outcome EXCEPT ![t] = "rejected"]
    /\ UNCHANGED <<cbVars, thread_tmp, thread_probe, round_start>>

\* line 87: self.state = CircuitState.HALF_OPEN
SetHalfOpen(t) ==
    /\ thread_pc[t] = "set_half_open"
    /\ cb' = [cb EXCEPT !.state = HALF_OPEN]
    /\ thread_probe' = [thread_probe EXCEPT ![t] = TRUE]
    /\ thread_pc' = [thread_pc EXCEPT ![t] = "func"]
    /\ UNCHANGED <<now, last, consecFail, halfSucc, lastFailAt, thread_tmp, thread_outcome,
                   round_start>>

\* line 98: result = func(*args, **kwargs) returns or raises
RunFunc(t) ==
    /\ thread_pc[t] = "func"
    /\ \E funcOk \in BOOLEAN :
          /\ thread_outcome' = [thread_outcome EXCEPT ![t] = IF funcOk THEN "ok" ELSE "error"]
          /\ thread_pc' = [thread_pc EXCEPT ![t] = IF funcOk THEN "success_state" ELSE "failure_read"]
    /\ UNCHANGED <<cbVars, thread_tmp, thread_probe, round_start>>

\* _on_success, line 107: if self.state == CircuitState.HALF_OPEN;
\* line 121 (else branch): self.failure_count = 0
SuccessCheckState(t) ==
    /\ thread_pc[t] = "success_state"
    /\ IF cb.state = HALF_OPEN
       THEN /\ thread_pc' = [thread_pc EXCEPT ![t] = "success_read"]
            /\ UNCHANGED cb
       ELSE /\ thread_pc' = [thread_pc EXCEPT ![t] = "done"]
            /\ cb' = [cb EXCEPT !.failure_count = 0]
    /\ UNCHANGED <<now, last, consecFail, halfSucc, lastFailAt, thread_tmp, thread_outcome,
                   thread_probe, round_start>>

\* _on_success, line 108: self.success_count += 1, the read
SuccessRead(t) ==
    /\ thread_pc[t] = "success_read"
    /\ thread_tmp' = [thread_tmp EXCEPT ![t] = cb.success_count]
    /\ thread_pc' = [thread_pc EXCEPT ![t] = "success_write"]
    /\ UNCHANGED <<cbVars, thread_outcome, thread_probe, round_start>>

\* _on_success, line 108: self.success_count += 1, the write; lines 111-115: close
\* the breaker when the threshold is reached
SuccessWrite(t) ==
    /\ thread_pc[t] = "success_write"
    /\ LET b1 == [cb EXCEPT !.success_count = thread_tmp[t] + 1]
       IN  cb' = IF b1.success_count >= success_threshold
                 THEN [b1 EXCEPT !.state = CLOSED, !.success_count = 0, !.failure_count = 0]
                 ELSE b1
    /\ thread_pc' = [thread_pc EXCEPT ![t] = "done"]
    /\ UNCHANGED <<now, last, consecFail, halfSucc, lastFailAt, thread_tmp, thread_outcome,
                   thread_probe, round_start>>

\* _on_failure, line 125: self.failure_count += 1, the read
FailureRead(t) ==
    /\ thread_pc[t] = "failure_read"
    /\ thread_tmp' = [thread_tmp EXCEPT ![t] = cb.failure_count]
    /\ thread_pc' = [thread_pc EXCEPT ![t] = "failure_write"]
    /\ UNCHANGED <<cbVars, thread_outcome, thread_probe, round_start>>

\* _on_failure, line 125: the write; line 126: self.last_failure_time = datetime.now();
\* lines 128-137: reopen from HALF_OPEN, or open at the threshold
FailureWrite(t) ==
    /\ thread_pc[t] = "failure_write"
    /\ LET b1 == [cb EXCEPT !.failure_count = thread_tmp[t] + 1, !.last_failure_time = now]
       IN  cb' = IF b1.state = HALF_OPEN
                 THEN [b1 EXCEPT !.state = OPEN, !.success_count = 0]
                 ELSE IF b1.failure_count >= failure_threshold
                      THEN [b1 EXCEPT !.state = OPEN]
                      ELSE b1
    /\ thread_pc' = [thread_pc EXCEPT ![t] = "done"]
    /\ UNCHANGED <<now, last, consecFail, halfSucc, lastFailAt, thread_tmp, thread_outcome,
                   thread_probe, round_start>>

\* both calls have returned or raised; the threads serve the next requests
EndCalls ==
    /\ \A t \in Threads : thread_pc[t] = "done"
    /\ thread_pc' = [t \in Threads |-> "idle"]
    /\ thread_tmp' = [t \in Threads |-> 0]
    /\ thread_outcome' = [t \in Threads |-> "none"]
    /\ thread_probe' = [t \in Threads |-> FALSE]
    /\ round_start' = [cb |-> NewBreaker, at |-> 0]
    /\ UNCHANGED cbVars

NextConc ==
    \/ SoloCall /\ UNCHANGED <<jobVars, sendVars, extVars>>
    \/ IdleTick /\ UNCHANGED <<jobVars, sendVars, extVars>>
    \/ BeginCalls /\ UNCHANGED <<jobVars, sendVars, extVars>>
    \/ \E t \in Threads : CheckState(t) /\ UNCHANGED <<jobVars, sendVars, extVars>>
    \/ \E t \in Threads : CheckReset(t) /\ UNCHANGED <<jobVars, sendVars, extVars>>
    \/ \E t \in Threads : SetHalfOpen(t) /\ UNCHANGED <<jobVars, sendVars, extVars>>
    \/ \E t \in Threads : RunFunc(t) /\ UNCHANGED <<jobVars, sendVars, extVars>>
    \/ \E t \in Threads : SuccessCheckState(t) /\ UNCHANGED <<jobVars, sendVars, extVars>>
    \/ \E t \in Threads : SuccessRead(t) /\ UNCHANGED <<jobVars, sendVars, extVars>>
    \/ \E t \in Threads : SuccessWrite(t) /\ UNCHANGED <<jobVars, sendVars, extVars>>
    \/ \E t \in Threads : FailureRead(t) /\ UNCHANGED <<jobVars, sendVars, extVars>>
    \/ \E t \in Threads : FailureWrite(t) /\ UNCHANGED <<jobVars, sendVars, extVars>>
    \/ EndCalls /\ UNCHANGED <<jobVars, sendVars, extVars>>

SpecConc == InitConc /\ [][NextConc]_vars

----------------------------------------------------------------------------
(* SpecProcess: POST /api/process, process_scanned_sheet (app.py lines 73-204), *)
(* one request at a time                                                        *)

PdfSuffix == <<".", "p", "d", "f">>

\* numbers of pages of the documents uploaded to the endpoint: empty or one page
UploadPageCounts == {0, 1}

\* file names of uploads: none, a PDF, a PDF with an upper-case extension, a text file
Filenames ==
    { <<>>,
      <<"a", ".", "p", "d", "f">>,
      <<"a", ".", "P", "D", "F">>,
      <<"a", ".", "t", "x", "t">> }

\* str.endswith
EndsWith(str, suffix) ==
    /\ Len(str) >= Len(suffix)
    /\ SubSeq(str, Len(str) - Len(suffix) + 1, Len(str)) = suffix

\* variant of the checks of the request: the breaker is consulted after the checks of
\* the file name
ValidateUpload_FileChecksFirst(req, b, t) ==
    IF ~req.has_file THEN "no_file"
    ELSE IF req.filename = <<>> THEN "no_file_selected"
    ELSE IF ~EndsWith(req.filename, PdfSuffix) THEN "not_pdf"
    ELSE IF b.state = OPEN /\ ~_should_attempt_reset(b, t) THEN "circuit_breaker_open"
    ELSE "accepted"

\* lines 98-132: the checks made before the upload is saved, in the code's order
ValidateUpload(req, b, t) ==
    IF ~req.has_file THEN "no_file"
    ELSE IF b.state = OPEN /\ ~_should_attempt_reset(b, t) THEN "circuit_breaker_open"
    ELSE IF req.filename = <<>> THEN "no_file_selected"
    ELSE IF ~EndsWith(req.filename, PdfSuffix) THEN "not_pdf"
    ELSE "accepted"

\* the response for an upload that a check of lines 98-132 turns away
RejectionResponse(verdict) ==
    IF verdict = "circuit_breaker_open"
    THEN [code |-> 503, status |-> "circuit_breaker_open", job_id |-> 0, total_students |-> 0]
    ELSE [code |-> 400, status |-> "error", job_id |-> 0, total_students |-> 0]

\* lines 148-157: the row inserted into processing_jobs
JobRow(id, res) ==
    [job_id |-> id,
     lecture_id |-> res.lecture_id,
     total_pages |-> res.total_pages,
     total_students |-> res.total_students,
     present_count |-> res.present,
     absent_count |-> res.absent,
     attendance_percentage |-> res.attendance_percentage,
     status |-> res.status]

\* variant of final_status: a breaker left HALF_OPEN is not reported
FinalStatus_HalfOpenIgnored(attendance_result, res) ==
    IF attendance_result = NoResult THEN "success"
    ELSE IF attendance_result.circuit_breaker_state = OPEN THEN "circuit_breaker_open"
    ELSE IF attendance_result.success < Len(res.attendance_records) THEN "partial_success"
    ELSE "success"

\* lines 162, 174-183: final_status; attendance_result = NoResult is None
FinalStatus(attendance_result, res) ==
    IF attendance_result = NoResult THEN "success"
    ELSE IF attendance_result.circuit_breaker_state = OPEN THEN "circuit_breaker_open"
    ELSE IF attendance_result.circuit_breaker_state = HALF_OPEN THEN "circuit_breaker_testing"
    ELSE IF attendance_result.success < Len(res.attendance_records) THEN "partial_success"
    ELSE "success"

InitProcess ==
    /\ BreakerStart
    /\ ThreadsIdle
    /\ SendIdle
    /\ ExtIdle
    /\ store = SendStore
    /\ pc = "idle"
    /\ image_paths = 0
    /\ page_num = 0
    /\ lecture_id = ""
    /\ all_results = <<>>
    /\ result = NoResult
    /\ pageLog = <<>>

\* lines 96-142: a request arrives and is checked; an upload that passes gets a fresh
\* job id (uuid4) and is saved, then process_scanned_pdf starts on it
ReceiveUpload ==
    /\ req_pc = "idle"
    /\ \E has_file \in BOOLEAN, send_to_attendance \in BOOLEAN :
       \E filename \in (IF has_file THEN Filenames ELSE {<<>>}) :
          LET req == [has_file |-> has_file, filename |-> filename,
                      send_to_attendance |-> send_to_attendance]
              verdict == ValidateUpload(req, cb, now)
          IN  /\ request' = req
              /\ upload' = [cb |-> cb, table |-> processing_jobs,
                            outcome |-> IF verdict = "accepted" THEN "accepted" ELSE "rejected",
                            submitted |-> FALSE, at |-> now,
                            stored |-> verdict = "accepted"]
              /\ IF verdict = "accepted"
                 THEN /\ job_id < MaxUploads
                      /\ job_id' = job_id + 1
                      /\ req_pc' = "processing"
                      /\ reply' = NoResponse
                 ELSE /\ reply' = RejectionResponse(verdict)
                      /\ req_pc' = "responded"
                      /\ UNCHANGED job_id
    /\ UNCHANGED <<processing_jobs, cbVars, jobVars, sendVars>>

\* line 145, process_scanned_pdf line 285: the document is converted, or the
\* conversion raises
UploadConvert ==
    /\ req_pc = "processing"
    /\ convert_pdf_to_images(UploadPageCounts)
    /\ UNCHANGED <<cbVars, sendVars, reqVars>>

\* line 145, process_scanned_pdf lines 292-348: the next page
UploadPage ==
    /\ req_pc = "processing"
    /\ PageStep
    /\ UNCHANGED <<cbVars, sendVars, reqVars>>

\* line 145, process_scanned_pdf lines 350-365: process_scanned_pdf returns
UploadFinish ==
    /\ req_pc = "processing"
    /\ FinishJob
    /\ UNCHANGED <<cbVars, sendVars, reqVars>>

\* the handler has returned: the locals of process_scanned_pdf are gone
JobReturned ==
    /\ pc' = "idle"
    /\ image_paths' = 0
    /\ page_num' = 0
    /\ lecture_id' = ""
    /\ all_results' = <<>>
    /\ result' = NoResult
    /\ pageLog' = <<>>
    /\ UNCHANGED store

\* the handler has returned: the locals of send_to_attendance_service are gone
SendReturned ==
    /\ send_pc' = "idle"
    /\ attendance_records' = <<>>
    /\ sent' = 0
    /\ success_count' = 0
    /\ error_count' = 0
    /\ cb_rejected_count' = 0
    /\ errors' = <<>>
    /\ send_result' = NoResult
    /\ sendLog' = <<>>

\* variant of the handler's except: the job that failed is recorded in processing_jobs
\* with status error before the error response is returned
ConversionError_PersistsRow ==
    /\ req_pc = "processing"
    /\ pc = "failed"
    /\ reply' = [code |-> 500, status |-> "error", job_id |-> 0, total_students |-> 0]
    /\ req_pc' = "responded"
    /\ upload' = [upload EXCEPT !.outcome = "conversion_failed"]
    /\ processing_jobs' = Append(processing_jobs,
                                 [job_id |-> job_id, lecture_id |-> "", total_pages |-> 0,
                                  total_students |-> 0, present_count |-> 0,
                                  absent_count |-> 0, attendance_percentage |-> 0,
                                  status |-> "error"])
    /\ UNCHANGED <<request, job_id>>
    /\ UNCHANGED <<cbVars, jobVars, sendVars>>

\* lines 200-204: the exception of convert_pdf_to_images reaches the handler's except
ConversionError ==
    /\ req_pc = "processing"
    /\ pc = "failed"
    /\ reply' = [code |-> 500, status |-> "error", job_id |-> 0, total_students |-> 0]
    /\ req_pc' = "responded"
    /\ upload' = [upload EXCEPT !.outcome = "conversion_failed"]
    /\ UNCHANGED <<request, job_id, processing_jobs>>
    /\ UNCHANGED <<cbVars, jobVars, sendVars>>

\* lines 148-172: the job's row is inserted; then either send_to_attendance_service is
\* called with the job's records, or (nothing to send) the response is returned
SaveJob ==
    /\ req_pc = "processing"
    /\ pc = "done"
    /\ processing_jobs' = Append(processing_jobs, JobRow(job_id, result))
    /\ IF request.send_to_attendance /\ result.attendance_records # <<>>
       THEN /\ req_pc' = "sending"
            /\ upload' = [upload EXCEPT !.outcome = "processed", !.submitted = TRUE]
            /\ attendance_records' = result.attendance_records
            /\ send_pc' = "loop"
            /\ UNCHANGED reply
       ELSE /\ req_pc' = "responded"
            /\ upload' = [upload EXCEPT !.outcome = "processed"]
            /\ reply' = [code |-> 201, status |-> FinalStatus(NoResult, result),
                          job_id |-> job_id, total_students |-> result.total_students]
            /\ UNCHANGED <<attendance_records, send_pc>>
    /\ UNCHANGED <<sent, success_count, error_count, cb_rejected_count, errors, send_result,
                   sendLog>>
    /\ UNCHANGED <<request, job_id>>
    /\ UNCHANGED <<cbVars, jobVars>>

\* line 169, send_to_attendance_service lines 389-415: the next record
UploadSendRecord ==
    /\ req_pc = "sending"
    /\ SendRecord
    /\ UNCHANGED <<jobVars, reqVars>>

\* line 169, send_to_attendance_service lines 417-425: the call returns
UploadSendReturn ==
    /\ req_pc = "sending"
    /\ ReturnSendResult
    /\ UNCHANGED <<jobVars, reqVars>>

\* variant of the response: final_status is written back to the job's row
Respond_UpdatesRow ==
    /\ req_pc = "sending"
    /\ send_pc = "returned"
    /\ reply' = [code |-> 201, status |-> FinalStatus(send_result, result), job_id |-> job_id,
                  total_students |-> result.total_students]
    /\ req_pc' = "responded"
    /\ processing_jobs' = [processing_jobs EXCEPT ![Len(processing_jobs)].status =
                                                      FinalStatus(send_result, result)]
    /\ UNCHANGED <<request, job_id, upload>>
    /\ UNCHANGED <<cbVars, jobVars, sendVars>>

\* lines 174-198: final_status and the response
Respond ==
    /\ req_pc = "sending"
    /\ send_pc = "returned"
    /\ reply' = [code |-> 201, status |-> FinalStatus(send_result, result), job_id |-> job_id,
                  total_students |-> result.total_students]
    /\ req_pc' = "responded"
    /\ UNCHANGED <<request, job_id, processing_jobs, upload>>
    /\ UNCHANGED <<cbVars, jobVars, sendVars>>

\* the handler has returned and the response is sent: its locals are gone, the
\* endpoint waits for the next request (the history keeps the last breaker operation
\* of the request being handled only)
HandlerReturns ==
    /\ req_pc = "responded"
    /\ req_pc' = "idle"
    /\ request' = NoRequest
    /\ reply' = NoResponse
    /\ upload' = NoUpload
    /\ JobReturned
    /\ SendReturned
    /\ last' = NoOp
    /\ UNCHANGED <<job_id, processing_jobs>>
    /\ UNCHANGED <<cb, now, consecFail, halfSucc, lastFailAt>>

\* time passes between two requests
UploadTick ==
    /\ req_pc = "idle"
    /\ SendTick
    /\ UNCHANGED <<jobVars, reqVars>>

NextProcess ==
    \/ ReceiveUpload /\ UNCHANGED <<concVars, zipVars, barVars, genVars, moreVars>>
    \/ UploadConvert /\ UNCHANGED <<concVars, zipVars, barVars, genVars, moreVars>>
    \/ UploadPage /\ UNCHANGED <<concVars, zipVars, barVars, genVars, moreVars>>
    \/ UploadFinish /\ UNCHANGED <<concVars, zipVars, barVars, genVars, moreVars>>
    \/ ConversionError /\ UNCHANGED <<concVars, zipVars, barVars, genVars, moreVars>>
    \/ SaveJob /\ UNCHANGED <<concVars, zipVars, barVars, genVars, moreVars>>
    \/ UploadSendRecord /\ UNCHANGED <<concVars, zipVars, barVars, genVars, moreVars>>
    \/ UploadSendReturn /\ UNCHANGED <<concVars, zipVars, barVars, genVars, moreVars>>
    \/ Respond /\ UNCHANGED <<concVars, zipVars, barVars, genVars, moreVars>>
    \/ HandlerReturns /\ UNCHANGED <<concVars, zipVars, barVars, genVars, moreVars>>
    \/ UploadTick /\ UNCHANGED <<concVars, zipVars, barVars, genVars, moreVars>>

SpecProcess == InitProcess /\ [][NextProcess]_vars

----------------------------------------------------------------------------
(* SpecZip: image_processor_zipgrade.py, ImageProcessor.process_bubble_sheet_page *)

\* ImageProcessor.__init__ of the zipgrade variant: bubble_fill_threshold = 0.65, in percent
zip_bubble_fill_threshold == 65

\* align_image: the aligned page is target_width x target_height pixels
target_width == 595
target_height == 842

\* circles the Hough transform may report on an aligned page: two in the attendance
\* column, one more in the column at the height of the second, one left of the column
\* (x = 416 is not above width * 0.70 = 416.5), one on the header line (y = 150)
CirclePositions ==
    { [x |-> 500, y |-> 200], [x |-> 500, y |-> 300], [x |-> 450, y |-> 300],
      [x |-> 416, y |-> 250], [x |-> 500, y |-> 150] }

\* fill fractions, in percent, of the pixels inside a detected circle
ZipFillLevels == {64, 65}

\* sequences without repetition of at most n elements of S
RECURSIVE Arrangements(_, _)
Arrangements(S, n) ==
    IF n = 0 THEN {<<>>}
    ELSE {<<>>} \cup UNION { {<<e>> \o rest : rest \in Arrangements(S \ {e}, n - 1)} : e \in S }

\* pages given to process_bubble_sheet_page: whether cv2.imread reads the file, whether
\* the calibration points are found, the circles HoughCircles reports (in its order, with
\* the fill of each), and the page's templates in template order
ZipPages ==
    { [readable |-> rd, calibration |-> cal,
       circles |-> [i \in 1..Len(pos) |-> [x |-> pos[i].x, y |-> pos[i].y, fill |-> fl[i]]],
       bubble_templates |-> [i \in 1..n |-> [student_id |-> i]]] :
         rd \in BOOLEAN, cal \in BOOLEAN, n \in 0..MaxZipStudents,
         pos \in Arrangements(CirclePositions, MaxCircles),
         fl \in [1..MaxCircles -> ZipFillLevels] }

\* detect_attendance_bubbles, lines 134-144: the circle lies in the attendance area
\* (min_x = width * 0.70 < x < max_x = width * 0.95, 150 < y < height - 100)
InAttendanceArea(c) ==
    /\ 70 * target_width < 100 * c.x
    /\ 100 * c.x < 95 * target_width
    /\ 150 < c.y
    /\ c.y < target_height - 100

\* list.sort(key=lambda c: c[1]): stable insertion of c into a list sorted by y
InsertByY(sorted, c) ==
    LET before == SelectSeq(sorted, LAMBDA d : d.y <= c.y)
        after == SelectSeq(sorted, LAMBDA d : d.y > c.y)
    IN  before \o <<c>> \o after

\* list.sort(key=lambda c: c[1]): the list sorted by y, equal keys in their first order
RECURSIVE SortByY(_)
SortByY(bubbles) ==
    IF bubbles = <<>> THEN <<>>
    ELSE InsertByY(SortByY(SubSeq(bubbles, 1, Len(bubbles) - 1)), bubbles[Len(bubbles)])

\* variant of detect_attendance_bubbles that keeps the circles in the order found
detect_attendance_bubbles_Unsorted(circles, expected_count) ==
    LET attendance_bubbles == SelectSeq(circles, InAttendanceArea)
    IN  SubSeq(attendance_bubbles, 1, Min(expected_count, Len(attendance_bubbles)))

\* detect_attendance_bubbles: the circles of the attendance area, top to bottom, at most
\* expected_count of them (no circle at all gives the empty list)
detect_attendance_bubbles(circles, expected_count) ==
    LET attendance_bubbles == SortByY(SelectSeq(circles, InAttendanceArea))
    IN  SubSeq(attendance_bubbles, 1, Min(expected_count, Len(attendance_bubbles)))

\* detect_bubble_fill and lines 209-227: the result of a student paired with a bubble;
\* confidence in percent
PairedResult(template, bubble) ==
    LET is_filled == bubble.fill >= zip_bubble_fill_threshold
    IN  [student_id |-> template.student_id,
         is_filled |-> is_filled,
         confidence |-> IF is_filled
                        THEN Min((bubble.fill * 100) \div zip_bubble_fill_threshold, 100)
                        ELSE 100 - ((bubble.fill * 100) \div zip_bubble_fill_threshold),
         bubble_center |-> <<bubble.x, bubble.y>>,
         fill_percentage |-> bubble.fill]

\* lines 228-238: the result of a student for whom no bubble was found
UnpairedResult(template) ==
    [student_id |-> template.student_id,
     is_filled |-> FALSE,
     confidence |-> 0,
     bubble_center |-> <<0, 0>>,
     fill_percentage |-> 0]

InitZip ==
    /\ BreakerStart
    /\ ThreadsIdle
    /\ SendIdle
    /\ JobIdle
    /\ store = <<>>
    /\ ReqIdle
    /\ BarIdle
    /\ MoreIdle
    /\ GenIdle
    /\ zip_pc = "start"
    /\ zip_page \in ZipPages
    /\ detected_bubbles = <<>>
    /\ zip_results = <<>>

\* lines 182-200: read the image, find the calibration points, align, detect the bubbles
ZipDetect ==
    /\ zip_pc = "start"
    /\ IF ~zip_page.readable \/ ~zip_page.calibration
       THEN /\ zip_pc' = "raised"
            /\ UNCHANGED detected_bubbles
       ELSE /\ zip_pc' = "matching"
            /\ detected_bubbles' = detect_attendance_bubbles(zip_page.circles,
                                                             Len(zip_page.bubble_templates))
    /\ UNCHANGED <<zip_page, zip_results>>

\* lines 203-238: one round of the loop over the templates
ZipMatch ==
    /\ zip_pc = "matching"
    /\ Len(zip_results) < Len(zip_page.bubble_templates)
    /\ LET idx == Len(zip_results)
           template == zip_page.bubble_templates[idx + 1]
       IN  zip_results' = Append(zip_results,
                                 IF idx < Len(detected_bubbles)
                                 THEN PairedResult(template, detected_bubbles[idx + 1])
                                 ELSE UnpairedResult(template))
    /\ UNCHANGED <<zip_pc, zip_page, detected_bubbles>>

\* line 242: return results
ZipReturn ==
    /\ zip_pc = "matching"
    /\ Len(zip_results) = Len(zip_page.bubble_templates)
    /\ zip_pc' = "returned"
    /\ UNCHANGED <<zip_page, detected_bubbles, zip_results>>

NextZip ==
    \/ ZipDetect /\ UNCHANGED <<cbVars, jobVars, sendVars, concVars, reqVars, barVars, genVars, moreVars>>
    \/ ZipMatch /\ UNCHANGED <<cbVars, jobVars, sendVars, concVars, reqVars, barVars, genVars, moreVars>>
    \/ ZipReturn /\ UNCHANGED <<cbVars, jobVars, sendVars, concVars, reqVars, barVars, genVars, moreVars>>

SpecZip == InitZip /\ [][NextZip]_vars

----------------------------------------------------------------------------
(* SpecBarcode: barcode_generator.py (BarcodeGenerator) and OMRProcessor.read_barcode *)

\* lecture ids, as strings of characters
BarLectures == { <<"L", "1">>, <<"L", "2">> }

\* values hash(lecture_id) may take in a generator process
HashValues == {-42, 42, 100000007}

\* roster sizes given to the generate endpoint (1, 2 and 100 pages)
RosterSizes == {1, 31, 2971}

\* payloads a scanner may hand to the decoder: a well-formed one; letters in the hash
\* part; signs in the page part; a letter in the page part; ten digits; thirteen digits;
\* the old LECTUREID-PAGE/TOTAL format; a bare number; nothing
Payloads ==
    { <<"0", "0", "0", "0", "0", "0", "4", "2", "0", "1", "0", "2">>,
      <<"A", "B", "C", "D", "E", "F", "G", "H", "0", "1", "0", "2">>,
      <<"0", "0", "0", "0", "0", "0", "4", "2", "+", "1", "+", "2">>,
      <<"0", "0", "0", "0", "0", "0", "4", "2", "A", "1", "0", "2">>,
      <<"0", "0", "0", "0", "0", "0", "4", "2", "0", "1">>,
      <<"0", "0", "0", "0", "0", "0", "4", "2", "0", "5", "1", "0", "0">>,
      <<"L", "1", "-", "1", "/", "2">>,
      <<"4", "2", "0", "1">>,
      <<>> }

Abs(n) == IF n < 0 THEN -n ELSE n

\* format(n, "0{width}d") for n >= 0: at least width digits, zero-padded on the left
RECURSIVE Pad(_, _)
Pad(n, width) == IF Len(Str(n)) >= width THEN Str(n) ELSE <<"0">> \o Pad(n, width - 1)

IsDigitChar(ch) == \E i \in 1..Len(DigitChars) : DigitChars[i] = ch

DigitValue(ch) == (CHOOSE i \in 1..Len(DigitChars) : DigitChars[i] = ch) - 1

\* str.isdigit()
isdigit(str) == Len(str) > 0 /\ \A i \in 1..Len(str) : IsDigitChar(str[i])

\* the number written by a string of digits
RECURSIVE DigitsValue(_)
DigitsValue(str) ==
    IF str = <<>> THEN 0
    ELSE DigitsValue(SubSeq(str, 1, Len(str) - 1)) * 10 + DigitValue(str[Len(str)])

\* str.strip() for blanks
RECURSIVE Strip(_)
Strip(str) ==
    IF str = <<>> THEN str
    ELSE IF str[1] = " " THEN Strip(Tail(str))
    ELSE IF str[Len(str)] = " " THEN Strip(SubSeq(str, 1, Len(str) - 1))
    ELSE str

\* the result of a conversion that raised ValueError
Raised == [ok |-> FALSE, value |-> 0]

\* int(str): blanks around the number and a sign before it are accepted
int(str) ==
    LET body == Strip(str)
        signed == body # <<>> /\ body[1] \in {"+", "-"}
        digits == IF signed THEN Tail(body) ELSE body
    IN  IF ~isdigit(digits) THEN Raised
        ELSE [ok |-> TRUE,
              value |-> IF signed /\ body[1] = "-" THEN -DigitsValue(digits)
                        ELSE DigitsValue(digits)]

\* json.loads on a payload without quotes, brackets or braces: only a number parses
\* (blanks around it, a minus sign, no leading zero)
JsonLoads(str) ==
    LET body == Strip(str)
        negative == body # <<>> /\ body[1] = "-"
        digits == IF negative THEN Tail(body) ELSE body
    IN  IF ~isdigit(digits) \/ (Len(digits) > 1 /\ digits[1] = "0") THEN Raised
        ELSE [ok |-> TRUE,
              value |-> IF negative THEN -DigitsValue(digits) ELSE DigitsValue(digits)]

\* variant of total_pages that counts full pages only
TotalPages_FullOnly(total_students) == total_students \div students_per_page

\* generate_bubble_sheet, line 105: total_pages
TotalPages(total_students) == (total_students + students_per_page - 1) \div students_per_page

\* BarcodeGenerator.generate_barcode_data
generate_barcode_data(lecture, page_number, total_pages) ==
    LET lecture_hash == Abs(py_hash[lecture]) % 100000000
        page_code == Pad(page_number, 2) \o Pad(total_pages, 2)
    IN  Pad(lecture_hash, 8) \o page_code

\* dict[key] = value
DictSet(dict, key, value) ==
    [k \in DOMAIN dict \cup {key} |-> IF k = key THEN value ELSE dict[k]]

\* BarcodeGenerator.save_lecture_mapping
save_lecture_mapping(mapping, lecture, numeric_code) ==
    DictSet(mapping, SubSeq(numeric_code, 1, 8), lecture)

\* the synthetic lecture id "LEC-" + hash
SyntheticId(lecture_hash) == <<"L", "E", "C", "-">> \o lecture_hash

\* ValueError("Invalid barcode format: ...")
FormatError == [kind |-> "error"]

\* BarcodeGenerator.decode_barcode_data
decode_barcode_data(barcode_data) ==
    IF Len(barcode_data) # 12 THEN FormatError
    ELSE LET lecture_hash == SubSeq(barcode_data, 1, 8)
             page_number == int(SubSeq(barcode_data, 9, 10))
             total_pages == int(SubSeq(barcode_data, 11, 12))
         IN  IF ~page_number.ok \/ ~total_pages.ok THEN FormatError
             ELSE [kind |-> "itf",
                   lecture_id |-> IF lecture_hash \in DOMAIN _lecture_mapping
                                  THEN _lecture_mapping[lecture_hash]
                                  ELSE SyntheticId(lecture_hash),
                   page |-> page_number.value,
                   total_pages |-> total_pages.value,
                   hash |-> lecture_hash]

\* positions of ch in str
Positions(str, ch) == {i \in 1..Len(str) : str[i] = ch}

SetMax(S) == CHOOSE x \in S : \A y \in S : y <= x

SetMin(S) == CHOOSE x \in S : \A y \in S : x <= y

\* read_barcode, lines 207-222: the old format LECTUREID-PAGE/TOTAL, then JSON
ReadOldFormat(barcode_data) ==
    LET dashes == Positions(barcode_data, "-")
        cut == SetMax(dashes)
        tail == SubSeq(barcode_data, cut + 1, Len(barcode_data))
        slashes == Positions(tail, "/")
        first == SetMin(slashes)
        later == {i \in slashes : i > first}
        second == IF later = {} THEN Len(tail) + 1 ELSE SetMin(later)
        page_number == int(SubSeq(tail, 1, first - 1))
        total_pages == int(SubSeq(tail, first + 1, second - 1))
        json == JsonLoads(barcode_data)
    IN  IF dashes # {} /\ slashes # {} /\ page_number.ok /\ total_pages.ok
        THEN [kind |-> "old",
              lecture_id |-> SubSeq(barcode_data, 1, cut - 1),
              page |-> page_number.value,
              total_pages |-> total_pages.value]
        ELSE IF json.ok THEN [kind |-> "json", value |-> json.value]
        ELSE FormatError

\* OMRProcessor.read_barcode on the payload of the first barcode found: the results it
\* may return (the row fetched for a hash that several lectures share is not determined)
read_barcode(barcode_data) ==
    IF Len(barcode_data) = 12 /\ isdigit(barcode_data)
    THEN LET lecture_hash == SubSeq(barcode_data, 1, 8)
             rows == {l \in DOMAIN barcode_mapping : barcode_mapping[l] = lecture_hash}
             ids == IF rows = {} THEN {SyntheticId(lecture_hash)} ELSE rows
         IN  { [kind |-> "itf",
                lecture_id |-> id,
                page |-> int(SubSeq(barcode_data, 9, 10)).value,
                total_pages |-> int(SubSeq(barcode_data, 11, 12)).value,
                hash |-> lecture_hash] : id \in ids }
    ELSE {ReadOldFormat(barcode_data)}

InitBarcode ==
    /\ BreakerStart
    /\ ThreadsIdle
    /\ SendIdle
    /\ JobIdle
    /\ store = <<>>
    /\ ReqIdle
    /\ ZipIdle
    /\ MoreIdle
    /\ GenIdle
    /\ bar_pc = "idle"
    /\ py_hash \in [BarLectures -> HashValues]
    /\ _lecture_mapping = <<>>
    /\ barcode_mapping = <<>>
    /\ bar_sheet = NoSheet
    /\ bar_payload = <<>>
    /\ bar_decoded = NoDecoded

\* POST /api/generate for a lecture with a roster of total_students: _draw_barcode
\* saves the mapping for each page (pdf_generator.py 304-305, all pages share the hash
\* part), the endpoint stores the hash in barcode_mapping (app.py 148-154); one of the
\* printed pages is followed unless one is being followed already
GenerateSheets ==
    /\ bar_pc \in {"idle", "printed"}
    /\ \E lecture \in BarLectures, total_students \in RosterSizes :
          LET total_pages == TotalPages(total_students)
              first_code == generate_barcode_data(lecture, 1, total_pages)
          IN  /\ _lecture_mapping' = save_lecture_mapping(_lecture_mapping, lecture, first_code)
              /\ barcode_mapping' = DictSet(barcode_mapping, lecture, SubSeq(first_code, 1, 8))
              /\ IF bar_pc = "printed"
                 THEN UNCHANGED bar_sheet
                 ELSE \E page \in 1..total_pages :
                        bar_sheet' = [lecture_id |-> lecture, page |-> page,
                                      total_pages |-> total_pages,
                                      code |-> generate_barcode_data(lecture, page,
                                                                     total_pages)]
    /\ bar_pc' = "printed"
    /\ UNCHANGED <<py_hash, bar_payload, bar_decoded>>

\* the generator process restarts: the class attribute is empty again and hash() is
\* seeded anew; the barcode_mapping table stays
RestartGenerator ==
    /\ bar_pc = "printed"
    /\ _lecture_mapping # <<>>
    /\ _lecture_mapping' = <<>>
    /\ py_hash' \in [BarLectures -> HashValues]
    /\ UNCHANGED <<bar_pc, barcode_mapping, bar_sheet, bar_payload, bar_decoded>>

\* decode_barcode_data on the code of the printed page
DecodeSheet ==
    /\ bar_pc = "printed"
    /\ bar_payload' = bar_sheet.code
    /\ bar_decoded' = decode_barcode_data(bar_sheet.code)
    /\ bar_pc' = "decoded"
    /\ UNCHANGED <<py_hash, _lecture_mapping, barcode_mapping, bar_sheet>>

\* decode_barcode_data on a scanned payload
DecodePayload ==
    /\ bar_pc = "idle"
    /\ \E payload \in Payloads :
          /\ bar_payload' = payload
          /\ bar_decoded' = decode_barcode_data(payload)
    /\ bar_pc' = "decoded_payload"
    /\ UNCHANGED <<py_hash, _lecture_mapping, barcode_mapping, bar_sheet>>

\* read_barcode on a scanned payload
ReadPayload ==
    /\ bar_pc = "idle"
    /\ \E payload \in Payloads :
          /\ bar_payload' = payload
          /\ bar_decoded' \in read_barcode(payload)
    /\ bar_pc' = "read"
    /\ UNCHANGED <<py_hash, _lecture_mapping, barcode_mapping, bar_sheet>>

\* the decoder's caller is done with the result
DecoderReturns ==
    /\ bar_pc \in {"decoded", "decoded_payload", "read"}
    /\ bar_pc' = "idle"
    /\ bar_sheet' = NoSheet
    /\ bar_payload' = <<>>
    /\ bar_decoded' = NoDecoded
    /\ UNCHANGED <<py_hash, _lecture_mapping, barcode_mapping>>

NextBarcode ==
    \/ GenerateSheets /\ UNCHANGED <<cbVars, jobVars, sendVars, concVars, reqVars, zipVars, genVars, moreVars>>
    \/ RestartGenerator /\ UNCHANGED <<cbVars, jobVars, sendVars, concVars, reqVars, zipVars, genVars, moreVars>>
    \/ DecodeSheet /\ UNCHANGED <<cbVars, jobVars, sendVars, concVars, reqVars, zipVars, genVars, moreVars>>
    \/ DecodePayload /\ UNCHANGED <<cbVars, jobVars, sendVars, concVars, reqVars, zipVars, genVars, moreVars>>
    \/ ReadPayload /\ UNCHANGED <<cbVars, jobVars, sendVars, concVars, reqVars, zipVars, genVars, moreVars>>
    \/ DecoderReturns /\ UNCHANGED <<cbVars, jobVars, sendVars, concVars, reqVars, zipVars, genVars, moreVars>>

SpecBarcode == InitBarcode /\ [][NextBarcode]_vars

----------------------------------------------------------------------------
(* SpecGen: pdf_generator.py, BubbleSheetPDFGenerator.generate_bubble_sheet *)

\* a roster of n students; the ids run against the roster order
Roster(n) == [i \in 1..n |-> [id |-> n + 1 - i]]

\* students[start_idx:end_idx]
Slice(list, start_idx, end_idx) == SubSeq(list, start_idx + 1, Min(end_idx, Len(list)))

\* _save_bubble_coordinates: the rows inserted for one page, in the order of the page
_save_bubble_coordinates(lecture, page_num_arg, students) ==
    [idx \in 1..Len(students) |->
        [lecture_id |-> lecture,
         page_number |-> page_num_arg,
         student_id |-> students[idx].id,
         row_number |-> (page_num_arg - 1) * students_per_page + idx]]

InitGen ==
    /\ BreakerStart
    /\ ThreadsIdle
    /\ SendIdle
    /\ JobIdle
    /\ store = <<>>
    /\ ReqIdle
    /\ ZipIdle
    /\ MoreIdle
    /\ BarIdle
    /\ gen_pc = "start"
    /\ gen_students \in {Roster(n) : n \in 0..MaxStudents}
    /\ gen_total_pages = 0
    /\ gen_page_num = 0
    /\ gen_table = <<>>
    /\ gen_drawn = <<>>

\* lines 104-108: total_students, total_pages
GenStart ==
    /\ gen_pc = "start"
    /\ gen_total_pages' = TotalPages(Len(gen_students))
    /\ gen_pc' = "pages"
    /\ UNCHANGED <<gen_students, gen_page_num, gen_table, gen_drawn>>

\* lines 111-130: one round of the page loop
GenPage ==
    /\ gen_pc = "pages"
    /\ gen_page_num < gen_total_pages
    /\ LET page == gen_page_num + 1
           total_students == Len(gen_students)
           start_idx == (page - 1) * students_per_page
           end_idx == Min(start_idx + students_per_page, total_students)
           page_students == Slice(gen_students, start_idx, end_idx)
       IN  /\ gen_drawn' = Append(gen_drawn, page_students)
           /\ gen_table' = gen_table \o _save_bubble_coordinates("L1", page, page_students)
           /\ gen_page_num' = page
    /\ UNCHANGED <<gen_pc, gen_students, gen_total_pages>>

\* lines 133-141: the PDF is saved and the result returned
GenReturn ==
    /\ gen_pc = "pages"
    /\ gen_page_num = gen_total_pages
    /\ gen_pc' = "done"
    /\ UNCHANGED <<gen_students, gen_total_pages, gen_page_num, gen_table, gen_drawn>>

NextGen ==
    \/ GenStart /\ UNCHANGED <<cbVars, jobVars, sendVars, concVars, reqVars, zipVars, barVars, moreVars>>
    \/ GenPage /\ UNCHANGED <<cbVars, jobVars, sendVars, concVars, reqVars, zipVars, barVars, moreVars>>
    \/ GenReturn /\ UNCHANGED <<cbVars, jobVars, sendVars, concVars, reqVars, zipVars, barVars, moreVars>>

SpecGen == InitGen /\ [][NextGen]_vars

----------------------------------------------------------------------------
(* SpecRecover: the breaker while the attendance service fails and then recovers *)

\* the cool-down after the last failure fits into the clock's range: a call that fails
\* ends early enough for timeout + 1 more seconds to pass
CoolDownFits(end) == end + timeout + 1 <= MaxTime

InitRecover ==
    /\ BreakerStart
    /\ ThreadsIdle
    /\ JobIdle
    /\ SendIdle
    /\ ReqIdle
    /\ ZipIdle
    /\ BarIdle
    /\ GenIdle
    /\ LateIdle
    /\ healthy = FALSE

\* a wrapped call arrives while the service is down: it fails or is rejected
FailingCall ==
    /\ ~healthy
    /\ \E d \in 0..MaxCallDuration :
          /\ CoolDownFits(now + d)
          /\ LET r == call(cb, now, FALSE, d)
             IN  /\ cb' = r.cb
                 /\ now' = r.end
                 /\ CallHistory(cb, now, r)
    /\ UNCHANGED healthy

\* a wrapped call arrives while the service answers: it succeeds or is rejected
SucceedingCall ==
    /\ \E d \in 0..MaxCallDuration :
          /\ now + d <= MaxTime
          /\ LET r == call(cb, now, TRUE, d)
             IN  /\ cb' = r.cb
                 /\ now' = r.end
                 /\ CallHistory(cb, now, r)
    /\ UNCHANGED healthy

\* from now on every downstream call succeeds
ServiceRecovers ==
    /\ ~healthy
    /\ healthy' = TRUE
    /\ UNCHANGED cbVars

\* the wall clock advances by a second
RecoverTick ==
    /\ Tick
    /\ UNCHANGED healthy

NextRecover ==
    \/ FailingCall /\ UNCHANGED <<jobVars, sendVars, concVars, reqVars, zipVars, barVars, genVars, lateVars>>
    \/ SucceedingCall /\ UNCHANGED <<jobVars, sendVars, concVars, reqVars, zipVars, barVars, genVars, lateVars>>
    \/ ServiceRecovers /\ UNCHANGED <<jobVars, sendVars, concVars, reqVars, zipVars, barVars, genVars, lateVars>>
    \/ RecoverTick /\ UNCHANGED <<jobVars, sendVars, concVars, reqVars, zipVars, barVars, genVars, lateVars>>

\* calls keep arriving and time advances
RecoverFairness ==
    /\ WF_vars(SucceedingCall /\ UNCHANGED <<jobVars, sendVars, concVars, reqVars, zipVars, barVars, genVars, lateVars>>)
    /\ WF_vars(RecoverTick /\ UNCHANGED <<jobVars, sendVars, concVars, reqVars, zipVars, barVars, genVars, lateVars>>)

SpecRecover == InitRecover /\ [][NextRecover]_vars /\ RecoverFairness

----------------------------------------------------------------------------
(* SpecSubmit: the submissions of the process endpoint, one processed upload  *)
(* after another (app.py lines 159-198).  Each upload that asks for           *)
(* submission and has records calls send_to_attendance_service on them; the   *)
(* endpoint then computes final_status from what the call returned.  The      *)
(* breaker lives as long as the service and is shared by all the uploads.     *)

InitSubmit ==
    /\ BreakerStart
    /\ ThreadsIdle
    /\ JobIdle
    /\ SendIdle
    /\ ExtIdle

\* app.py lines 159-172: submission is requested and the job has records, so
\* send_to_attendance_service is called on them (the response of the upload before,
\* if there was one, has been returned)
SubmitStart ==
    /\ send_pc = "returned" => final_status # ""
    /\ StartSend
    /\ final_status' = ""

\* app.py line 169: the next record of the loop of send_to_attendance_service
SubmitRecord ==
    /\ SendRecord
    /\ UNCHANGED final_status

\* app.py line 169: send_to_attendance_service returns
SubmitReturn ==
    /\ ReturnSendResult
    /\ UNCHANGED final_status

\* app.py lines 174-198: final_status of the response
SubmitRespond ==
    /\ send_pc = "returned"
    /\ final_status = ""
    /\ final_status' = FinalStatus(send_result, [attendance_records |-> attendance_records])
    /\ UNCHANGED <<cbVars, sendVars>>

\* time passes between two uploads or two records
SubmitTick ==
    /\ SendTick
    /\ UNCHANGED final_status

NextSubmit ==
    \/ SubmitStart /\ UNCHANGED <<jobVars, concVars, reqVars, zipVars, barVars, genVars, recVars, sheetVars, bhVars, attVars, geoVars>>
    \/ SubmitRecord /\ UNCHANGED <<jobVars, concVars, reqVars, zipVars, barVars, genVars, recVars, sheetVars, bhVars, attVars, geoVars>>
    \/ SubmitReturn /\ UNCHANGED <<jobVars, concVars, reqVars, zipVars, barVars, genVars, recVars, sheetVars, bhVars, attVars, geoVars>>
    \/ SubmitRespond /\ UNCHANGED <<jobVars, concVars, reqVars, zipVars, barVars, genVars, recVars, sheetVars, bhVars, attVars, geoVars>>
    \/ SubmitTick /\ UNCHANGED <<jobVars, concVars, reqVars, zipVars, barVars, genVars, recVars, sheetVars, bhVars, attVars, geoVars>>

SpecSubmit == InitSubmit /\ [][NextSubmit]_vars

----------------------------------------------------------------------------
(* SpecSheets: the generation service over its lifetime.  Sheets are asked    *)
(* for through POST /api/generate (bubble-sheet-generator/app.py lines        *)
(* 105-166), which issues a fresh lecture id per request, and by running      *)
(* pdf_generator.py as a script (lines 470-497), which calls                  *)
(* generate_bubble_sheet with the fixed lecture id 'LEC-2024-001'.  Both      *)
(* write to the same bubble_templates table.                                  *)

\* generations of one run of the model
MaxGenerations == 3

\* the lecture id of the script (lecture ids issued by the endpoint are 1, 2, ...)
ScriptLecture == 0

\* the roster of the script: distinct ids (90 of them in the script, two here)
ScriptRoster == Roster(2)

\* bodies of POST /api/generate: no students field; an empty list; one student; the
\* same student id twice; two students; a roster that needs a second page
GenerateBodies ==
    { [has_students |-> FALSE, students |-> <<>>],
      [has_students |-> TRUE, students |-> <<>>],
      [has_students |-> TRUE, students |-> <<[id |-> 1]>>],
      [has_students |-> TRUE, students |-> <<[id |-> 1], [id |-> 1]>>],
      [has_students |-> TRUE, students |-> <<[id |-> 1], [id |-> 2]>>],
      [has_students |-> TRUE, students |-> Roster(students_per_page + 1)] }

\* variant of the checks of the endpoint: an empty list is let through
ValidateGenerate_EmptyAllowed(data) ==
    IF ~data.has_students THEN "missing_field"
    ELSE "ok"

\* app.py lines 108-136: the checks of the request
ValidateGenerate(data) ==
    IF ~data.has_students THEN "missing_field"
    ELSE IF Len(data.students) = 0 THEN "no_students"
    ELSE "ok"

\* generate_bubble_sheet lines 111-130: the rows inserted by the page loop from page
\* page_num_arg on
RECURSIVE PageLoop(_, _, _, _)
PageLoop(lecture, students, page_num_arg, total_pages) ==
    IF page_num_arg > total_pages THEN <<>>
    ELSE LET total_students == Len(students)
             start_idx == (page_num_arg - 1) * students_per_page
             end_idx == Min(start_idx + students_per_page, total_students)
             page_students == Slice(students, start_idx, end_idx)
         IN  _save_bubble_coordinates(lecture, page_num_arg, page_students)
                 \o PageLoop(lecture, students, page_num_arg + 1, total_pages)

\* generate_bubble_sheet: the rows it inserts, the file it saves, what it returns
\* (output_path is given by the caller, one file per lecture id for both callers)
GenerateBubbleSheet(lecture, students) ==
    LET total_students == Len(students)
        total_pages == TotalPages(total_students)
    IN  [rows |-> PageLoop(lecture, students, 1, total_pages),
         output_path |-> lecture,
         total_pages |-> total_pages,
         total_students |-> total_students,
         status |-> "success"]

InitSheets ==
    /\ BreakerStart
    /\ ThreadsIdle
    /\ JobIdle
    /\ SendIdle
    /\ ExtIdle

\* app.py lines 105-166: one request of POST /api/generate, from the checks to the
\* response
GenerateEndpoint ==
    /\ sheet_runs < MaxGenerations
    /\ \E data \in GenerateBodies :
          LET verdict == ValidateGenerate(data)
              lecture == sheet_uuids + 1
              r == GenerateBubbleSheet(lecture, data.students)
          IN  /\ sheet_last' = [op |-> "endpoint", data |-> data,
                                templates |-> sheet_templates, mapping |-> sheet_mapping,
                                pdfs |-> sheet_pdfs]
              /\ sheet_runs' = sheet_runs + 1
              /\ sheet_uuids' = IF verdict = "missing_field" THEN sheet_uuids ELSE lecture
              /\ IF verdict = "ok"
                 THEN /\ sheet_templates' = sheet_templates \o r.rows
                      /\ sheet_pdfs' = sheet_pdfs \cup {r.output_path}
                      /\ sheet_mapping' = sheet_mapping \cup {lecture}
                      /\ sheet_reply' = [code |-> 201, status |-> "success", error |-> "none"]
                 ELSE /\ sheet_reply' =
                             [code |-> 400, status |-> "error",
                              error |-> IF verdict = "no_students"
                                        THEN "No students provided"
                                        ELSE "Missing required field: students"]
                      /\ UNCHANGED <<sheet_templates, sheet_pdfs, sheet_mapping>>

\* pdf_generator.py lines 470-497: the module is run as a script
RunScript ==
    /\ sheet_runs < MaxGenerations
    /\ LET r == GenerateBubbleSheet(ScriptLecture, ScriptRoster)
       IN  /\ sheet_last' = [op |-> "script", data |-> [has_students |-> TRUE,
                                                         students |-> ScriptRoster],
                             templates |-> sheet_templates, mapping |-> sheet_mapping,
                             pdfs |-> sheet_pdfs]
           /\ sheet_runs' = sheet_runs + 1
           /\ sheet_templates' = sheet_templates \o r.rows
           /\ sheet_pdfs' = sheet_pdfs \cup {r.output_path}
           /\ sheet_reply' = [code |-> 0, status |-> r.status, error |-> "none"]
           /\ UNCHANGED <<sheet_mapping, sheet_uuids>>

NextSheets ==
    \/ GenerateEndpoint /\ UNCHANGED <<cbVars, jobVars, sendVars, concVars, reqVars, zipVars, barVars, genVars, recVars, subVars, bhVars, attVars, geoVars>>
    \/ RunScript /\ UNCHANGED <<cbVars, jobVars, sendVars, concVars, reqVars, zipVars, barVars, genVars, recVars, subVars, bhVars, attVars, geoVars>>

SpecSheets == InitSheets /\ [][NextSheets]_vars

----------------------------------------------------------------------------
(* SpecBulkhead: callers in several threads call a function wrapped by        *)
(* Bulkhead.protect (src/common/bulkhead.py lines 87-125).  The wrapper's     *)
(* steps are the semaphore's acquire, the counting under the lock, the        *)
(* protected function, and the finally block (count down under the lock,      *)
(* then release).                                                             *)

\* calls of one run of the model
MaxCalls == 5

InitBulkhead ==
    /\ BreakerStart
    /\ ThreadsIdle
    /\ JobIdle
    /\ SendIdle
    /\ ExtIdle

\* a caller calls the wrapper and reaches line 99
BhCall(t) ==
    /\ bh_pc[t] = "idle"
    /\ bh_calls < MaxCalls
    /\ bh_calls' = bh_calls + 1
    /\ bh_pc' = [bh_pc EXCEPT ![t] = "acquiring"]
    /\ UNCHANGED <<_semaphore, _active_count, _total_accepted, _total_rejected, bh_raises>>

\* line 99: acquire takes a permit
BhAcquire(t) ==
    /\ bh_pc[t] = "acquiring"
    /\ _semaphore > 0
    /\ _semaphore' = _semaphore - 1
    /\ bh_pc' = [bh_pc EXCEPT ![t] = "acquired"]
    /\ UNCHANGED <<_active_count, _total_accepted, _total_rejected, bh_calls, bh_raises>>

\* lines 99-107: no permit came free within timeout seconds; acquire returns False,
\* the call is counted as rejected and BulkheadException is raised
BhTimeout(t) ==
    /\ bh_pc[t] = "acquiring"
    /\ _semaphore = 0
    /\ _total_rejected' = _total_rejected + 1
    /\ bh_pc' = [bh_pc EXCEPT ![t] = "idle"]
    /\ UNCHANGED <<_semaphore, _active_count, _total_accepted, bh_calls, bh_raises>>

\* lines 109-113: the call is counted under the lock
BhCount(t) ==
    /\ bh_pc[t] = "acquired"
    /\ _active_count' = _active_count + 1
    /\ _total_accepted' = _total_accepted + 1
    /\ bh_pc' = [bh_pc EXCEPT ![t] = "running"]
    /\ UNCHANGED <<_semaphore, _total_rejected, bh_calls, bh_raises>>

\* lines 116-117: the protected function returns or raises
BhFunc(t) ==
    /\ bh_pc[t] = "running"
    /\ \E raises \in BOOLEAN :
          /\ bh_pc' = [bh_pc EXCEPT ![t] = IF raises THEN "raised" ELSE "returned"]
          /\ bh_raises' = bh_raises + (IF raises THEN 1 ELSE 0)
    /\ UNCHANGED <<_semaphore, _active_count, _total_accepted, _total_rejected, bh_calls>>

\* variant of the wrapper without finally: the count is only taken back when the
\* function returned
BhUncount_NoFinally(t) ==
    /\ bh_pc[t] \in {"returned", "raised"}
    /\ IF bh_pc[t] = "returned"
       THEN /\ _active_count' = _active_count - 1
            /\ bh_pc' = [bh_pc EXCEPT ![t] = "releasing"]
       ELSE /\ bh_pc' = [bh_pc EXCEPT ![t] = "idle"]
            /\ UNCHANGED _active_count
    /\ UNCHANGED <<_semaphore, _total_accepted, _total_rejected, bh_calls, bh_raises>>

\* lines 119-122: finally, the count is taken back under the lock
BhUncount(t) ==
    /\ bh_pc[t] \in {"returned", "raised"}
    /\ _active_count' = _active_count - 1
    /\ bh_pc' = [bh_pc EXCEPT ![t] = "releasing"]
    /\ UNCHANGED <<_semaphore, _total_accepted, _total_rejected, bh_calls, bh_raises>>

\* line 123: the permit is given back and the wrapper is left
BhRelease(t) ==
    /\ bh_pc[t] = "releasing"
    /\ _semaphore' = _semaphore + 1
    /\ bh_pc' = [bh_pc EXCEPT ![t] = "idle"]
    /\ UNCHANGED <<_active_count, _total_accepted, _total_rejected, bh_calls, bh_raises>>

\* lines 168-172: reset_stats
BhResetStats ==
    /\ _total_accepted + _total_rejected > 0
    /\ _total_accepted' = 0
    /\ _total_rejected' = 0
    /\ UNCHANGED <<bh_pc, _semaphore, _active_count, bh_calls, bh_raises>>

NextBulkhead ==
    \/ \E t \in Callers : BhCall(t) /\ UNCHANGED <<cbVars, jobVars, sendVars, concVars, reqVars, zipVars, barVars, genVars, recVars, subVars, sheetVars, attVars, geoVars>>
    \/ \E t \in Callers : BhAcquire(t) /\ UNCHANGED <<cbVars, jobVars, sendVars, concVars, reqVars, zipVars, barVars, genVars, recVars, subVars, sheetVars, attVars, geoVars>>
    \/ \E t \in Callers : BhTimeout(t) /\ UNCHANGED <<cbVars, jobVars, sendVars, concVars, reqVars, zipVars, barVars, genVars, recVars, subVars, sheetVars, attVars, geoVars>>
    \/ \E t \in Callers : BhCount(t) /\ UNCHANGED <<cbVars, jobVars, sendVars, concVars, reqVars, zipVars, barVars, genVars, recVars, subVars, sheetVars, attVars, geoVars>>
    \/ \E t \in Callers : BhFunc(t) /\ UNCHANGED <<cbVars, jobVars, sendVars, concVars, reqVars, zipVars, barVars, genVars, recVars, subVars, sheetVars, attVars, geoVars>>
    \/ \E t \in Callers : BhUncount(t) /\ UNCHANGED <<cbVars, jobVars, sendVars, concVars, reqVars, zipVars, barVars, genVars, recVars, subVars, sheetVars, attVars, geoVars>>
    \/ \E t \in Callers : BhRelease(t) /\ UNCHANGED <<cbVars, jobVars, sendVars, concVars, reqVars, zipVars, barVars, genVars, recVars, subVars, sheetVars, attVars, geoVars>>
    \/ BhResetStats /\ UNCHANGED <<cbVars, jobVars, sendVars, concVars, reqVars, zipVars, barVars, genVars, recVars, subVars, sheetVars, attVars, geoVars>>

SpecBulkhead == InitBulkhead /\ [][NextBulkhead]_vars

----------------------------------------------------------------------------
(* SpecAttendance: request threads of the attendance service (Flask's server  *)
(* handles each request in a thread of its own, app.py line 303) call         *)
(* AttendanceRepository.record_attendance (models/attendance.py lines         *)
(* 85-135) on the shared connection.  A call is a SELECT by idempotency key   *)
(* followed, when nothing was found, by an INSERT; each statement is atomic.  *)

\* calls of one run of the model
MaxAttCalls == 3

\* texts are sequences of characters; session_name may be None
NoSession == [is_none |-> TRUE, text |-> <<>>]

\* arguments of the calls: a record; the same key with another status; a student id
\* and a course id that contain the separator of the key
AttendanceCalls ==
    { [student_id |-> <<"s">>, course_id |-> <<"c">>, date |-> <<"d">>,
       status |-> "present", session_name |-> NoSession],
      [student_id |-> <<"s">>, course_id |-> <<"c">>, date |-> <<"d">>,
       status |-> "absent", session_name |-> NoSession],
      [student_id |-> <<"s", ":", "c">>, course_id |-> <<"c">>, date |-> <<"d">>,
       status |-> "present", session_name |-> NoSession],
      [student_id |-> <<"s">>, course_id |-> <<"c", ":", "c">>, date |-> <<"d">>,
       status |-> "present", session_name |-> NoSession] }

\* AttendanceRecord._generate_key: the text that is hashed (sha256 of equal texts is
\* equal, of different texts different)
_generate_key(a) ==
    a.student_id \o <<":">> \o a.course_id \o <<":">> \o a.date \o <<":">>
        \o (IF a.session_name.is_none THEN <<>> ELSE a.session_name.text)

\* SELECT id FROM attendance_records WHERE idempotency_key = ?: ids of the rows found
SelectByKey(table, key) == {table[i].id : i \in {j \in 1..Len(table) : table[j].idempotency_key = key}}

\* INSERT: whether a constraint of the table refuses the row (idempotency_key UNIQUE;
\* UNIQUE(student_id, course_id, date, session_name), where NULLs are distinct)
ViolatesUnique(table, a) ==
    \E i \in 1..Len(table) :
        \/ table[i].idempotency_key = _generate_key(a)
        \/ /\ table[i].student_id = a.student_id
           /\ table[i].course_id = a.course_id
           /\ table[i].date = a.date
           /\ ~a.session_name.is_none
           /\ table[i].session_name = a.session_name

InitAttendance ==
    /\ BreakerStart
    /\ ThreadsIdle
    /\ JobIdle
    /\ SendIdle
    /\ ExtIdle

\* app.py lines 82-88: a request thread calls record_attendance
AttCall(t) ==
    /\ att_pc[t] = "idle"
    /\ Len(att_log) + Cardinality({u \in AttThreads : att_pc[u] # "idle"}) < MaxAttCalls
    /\ \E a \in AttendanceCalls : att_args' = [att_args EXCEPT ![t] = a]
    /\ att_pc' = [att_pc EXCEPT ![t] = "select"]
    /\ UNCHANGED <<attendance_table, att_log>>

\* lines 100-119: the key is computed and looked up; a row found ends the call
AttSelect(t) ==
    /\ att_pc[t] = "select"
    /\ LET existing == SelectByKey(attendance_table, _generate_key(att_args[t]))
       IN  IF existing # {}
           THEN /\ att_log' = Append(att_log,
                                     [args |-> att_args[t], success |-> TRUE,
                                      message |-> "Already recorded",
                                      record_id |-> CHOOSE id \in existing : TRUE])
                /\ att_pc' = [att_pc EXCEPT ![t] = "idle"]
                /\ att_args' = [att_args EXCEPT ![t] = NoArgs]
           ELSE /\ att_pc' = [att_pc EXCEPT ![t] = "insert"]
                /\ UNCHANGED <<att_log, att_args>>
    /\ UNCHANGED attendance_table

\* lines 121-135: the INSERT; a refused row raises sqlite3.IntegrityError, which the
\* except turns into (False, str(e), None)
AttInsert(t) ==
    /\ att_pc[t] = "insert"
    /\ LET a == att_args[t]
           record_id == Len(attendance_table) + 1
       IN  IF ViolatesUnique(attendance_table, a)
           THEN /\ att_log' = Append(att_log,
                                     [args |-> a, success |-> FALSE,
                                      message |-> "UNIQUE constraint failed",
                                      record_id |-> 0])
                /\ UNCHANGED attendance_table
           ELSE /\ attendance_table' =
                       Append(attendance_table,
                              [id |-> record_id, student_id |-> a.student_id,
                               course_id |-> a.course_id, date |-> a.date,
                               status |-> a.status, session_name |-> a.session_name,
                               idempotency_key |-> _generate_key(a)])
                /\ att_log' = Append(att_log,
                                     [args |-> a, success |-> TRUE,
                                      message |-> "Recorded successfully",
                                      record_id |-> record_id])
    /\ att_pc' = [att_pc EXCEPT ![t] = "idle"]
    /\ att_args' = [att_args EXCEPT ![t] = NoArgs]

NextAttendance ==
    \/ \E t \in AttThreads : AttCall(t) /\ UNCHANGED <<cbVars, jobVars, sendVars, concVars, reqVars, zipVars, barVars, genVars, recVars, subVars, sheetVars, bhVars, geoVars>>
    \/ \E t \in AttThreads : AttSelect(t) /\ UNCHANGED <<cbVars, jobVars, sendVars, concVars, reqVars, zipVars, barVars, genVars, recVars, subVars, sheetVars, bhVars, geoVars>>
    \/ \E t \in AttThreads : AttInsert(t) /\ UNCHANGED <<cbVars, jobVars, sendVars, concVars, reqVars, zipVars, barVars, genVars, recVars, subVars, sheetVars, bhVars, geoVars>>

SpecAttendance == InitAttendance /\ [][NextAttendance]_vars

----------------------------------------------------------------------------
(* SpecGeometry: one page from the generator to the detector.  _draw_page     *)
(* draws the page and leaves the bounds of the marker frame in                *)
(* _bubble_area_bounds (pdf_generator.py lines 168-243);                      *)
(* _save_bubble_coordinates stores a row per student with the bubble's        *)
(* position and its ratios in that frame (lines 418-467); the detector        *)
(* (image_processor_old.py lines 137-182, 264-285) warps the scan so that the *)
(* four markers become the corners of a target_width x target_height image    *)
(* (top-left marker at (0, 0), y downward) and looks for each bubble at       *)
(* ratio * image size.  Lengths are in millimetres (reportlab's mm, of which  *)
(* every length of the layout is a whole multiple; A4 is 210 x 297), ratios   *)
(* are exact fractions num / den.                                             *)

\* A4
page_width == 210
page_height == 297

\* BubbleSheetPDFGenerator.__init__
bubble_radius == 3
bubble_x_offset == page_width - 40
row_height == 8
header_height == 50

\* _draw_bubble_area_markers: margin around the bubble area
margin == 10

\* _draw_bubble_area_markers: the bounds of the marker frame for a page of
\* students_count rows
DrawBubbleAreaMarkers(students_count) ==
    LET first_bubble_y == page_height - header_height - 20 - 2 - row_height + 3
        last_bubble_y == first_bubble_y - (students_count - 1) * row_height
        bubble_x == bubble_x_offset
    IN  [set |-> TRUE,
         top_y |-> first_bubble_y + margin,
         bottom_y |-> last_bubble_y - margin,
         left_x |-> bubble_x - margin - 5,
         right_x |-> bubble_x + margin]

\* _save_bubble_coordinates: bubble_y of the idx-th row of the page (y_position after
\* idx - 1 rounds of the loop, plus 3 mm)
BubbleY(idx) ==
    (page_height - header_height - 20 - 2 - row_height - (idx - 1) * row_height) + 3

\* variant of the ratios: the vertical offset is taken against top_y
RatiosInArea_AgainstTop(idx, bounds) ==
    IF bounds.set
    THEN [x |-> [num |-> bubble_x_offset - bounds.left_x,
                 den |-> bounds.right_x - bounds.left_x],
          y |-> [num |-> BubbleY(idx) - bounds.top_y,
                 den |-> bounds.top_y - bounds.bottom_y]]
    ELSE [x |-> [num |-> bubble_x_offset, den |-> page_width],
          y |-> [num |-> BubbleY(idx), den |-> page_height]]

\* _save_bubble_coordinates lines 437-448: x_ratio_in_area and y_ratio_in_area
RatiosInArea(idx, bounds) ==
    IF bounds.set
    THEN [x |-> [num |-> bubble_x_offset - bounds.left_x,
                 den |-> bounds.right_x - bounds.left_x],
          y |-> [num |-> BubbleY(idx) - bounds.bottom_y,
                 den |-> bounds.top_y - bounds.bottom_y]]
    ELSE [x |-> [num |-> bubble_x_offset, den |-> page_width],
          y |-> [num |-> BubbleY(idx), den |-> page_height]]

\* process_bubble_sheet_page lines 264-275: int(ratio * image size)
RatioToPixel(ratio, size) == (ratio.num * size) \div ratio.den

InitGeometry ==
    /\ BreakerStart
    /\ ThreadsIdle
    /\ JobIdle
    /\ SendIdle
    /\ ExtIdle

\* generate_bubble_sheet lines 117-120: _draw_page draws a page of 1 to
\* students_per_page students and its markers
GeoDrawPage ==
    /\ geo_pc = "idle"
    /\ \E students_count \in 1..students_per_page :
          /\ geo_count' = students_count
          /\ _bubble_area_bounds' = DrawBubbleAreaMarkers(students_count)
    /\ geo_pc' = "saving"
    /\ UNCHANGED <<geo_templates, geo_found>>

\* _save_bubble_coordinates lines 433-467: one round of the loop
GeoSaveRow ==
    /\ geo_pc = "saving"
    /\ Len(geo_templates) < geo_count
    /\ LET idx == Len(geo_templates) + 1
           ratios == RatiosInArea(idx, _bubble_area_bounds)
       IN  geo_templates' = Append(geo_templates,
                                   [row |-> idx,
                                    bubble_x |-> bubble_x_offset,
                                    bubble_y |-> BubbleY(idx),
                                    bubble_radius |-> bubble_radius,
                                    bubble_x_ratio |-> ratios.x,
                                    bubble_y_ratio |-> ratios.y])
    /\ UNCHANGED <<geo_pc, geo_count, _bubble_area_bounds, geo_found>>

\* the page is printed, scanned and aligned on its four markers
\* (image_processor_old.py lines 244-252)
GeoScan ==
    /\ geo_pc = "saving"
    /\ Len(geo_templates) = geo_count
    /\ geo_pc' = "detecting"
    /\ UNCHANGED <<geo_count, _bubble_area_bounds, geo_templates, geo_found>>

\* image_processor_old.py lines 264-275: where the next template's bubble is looked for
GeoDetectRow ==
    /\ geo_pc = "detecting"
    /\ Len(geo_found) < Len(geo_templates)
    /\ LET template == geo_templates[Len(geo_found) + 1]
       IN  geo_found' = Append(geo_found,
                               [bubble_x |-> RatioToPixel(template.bubble_x_ratio, target_width),
                                bubble_y |-> RatioToPixel(template.bubble_y_ratio, target_height)])
    /\ UNCHANGED <<geo_pc, geo_count, _bubble_area_bounds, geo_templates>>

\* all templates of the page have been looked at
GeoDone ==
    /\ geo_pc = "detecting"
    /\ Len(geo_found) = Len(geo_templates)
    /\ geo_pc' = "done"
    /\ UNCHANGED <<geo_count, _bubble_area_bounds, geo_templates, geo_found>>

NextGeometry ==
    \/ GeoDrawPage /\ UNCHANGED <<cbVars, jobVars, sendVars, concVars, reqVars, zipVars, barVars, genVars, recVars, subVars, sheetVars, bhVars, attVars>>
    \/ GeoSaveRow /\ UNCHANGED <<cbVars, jobVars, sendVars, concVars, reqVars, zipVars, barVars, genVars, recVars, subVars, sheetVars, bhVars, attVars>>
    \/ GeoScan /\ UNCHANGED <<cbVars, jobVars, sendVars, concVars, reqVars, zipVars, barVars, genVars, recVars, subVars, sheetVars, bhVars, attVars>>
    \/ GeoDetectRow /\ UNCHANGED <<cbVars, jobVars, sendVars, concVars, reqVars, zipVars, barVars, genVars, recVars, subVars, sheetVars, bhVars, attVars>>
    \/ GeoDone /\ UNCHANGED <<cbVars, jobVars, sendVars, concVars, reqVars, zipVars, barVars, genVars, recVars, subVars, sheetVars, bhVars, attVars>>

SpecGeometry == InitGeometry /\ [][NextGeometry]_vars

----------------------------------------------------------------------------
(* Properties of the breaker used sequentially (SpecCB) *)

\* C4: starting from CLOSED, a call moves the breaker to OPEN exactly when
\* failure_threshold wrapped calls have failed in a row; a successful call in CLOSED
\* resets the consecutive-failure count to 0; after fewer than failure_threshold
\* consecutive failures the breaker is still CLOSED.
C4_OpensExactlyAtThreshold ==
    /\ cb.state = CLOSED =>
          /\ cb.failure_count = consecFail
          /\ consecFail < failure_threshold
    /\ (last.op = "call" /\ last.pre.state = CLOSED) =>
          /\ cb.state \in {CLOSED, OPEN}
          /\ cb.state = OPEN <=> (last.result = "error" /\ consecFail = failure_threshold)
          /\ last.result = "ok" => (cb.state = CLOSED /\ cb.failure_count = 0)

\* a call in CLOSED that was the third failure in a row, after an earlier success
\* had reset the count, opened the breaker
C4_Witness ==
    /\ last.op = "call"
    /\ last.pre.state = CLOSED
    /\ last.result = "error"
    /\ last.preConsecFail = failure_threshold - 1
    /\ cb.state = OPEN
    /\ cb.failure_count = failure_threshold

\* C5: while the breaker is OPEN and no more than timeout seconds have passed since
\* the last recorded failure, call() raises the rejection error without invoking the
\* wrapped function and leaves state, failure_count, success_count and
\* last_failure_time unchanged.
C5_RejectsWhileOpen ==
    (/\ last.op = "call"
     /\ last.pre.state = OPEN
     /\ last.pre.last_failure_time # None
     /\ last.at - last.pre.last_failure_time <= timeout)
    => /\ last.result = "rejected"
       /\ ~last.invoked
       /\ cb = last.pre

\* a call made exactly timeout seconds after the last failure was rejected
C5_Witness ==
    /\ last.op = "call"
    /\ last.pre.state = OPEN
    /\ last.at - last.pre.last_failure_time = timeout
    /\ last.result = "rejected"

\* C6: an OPEN breaker lets no call reach the wrapped function until strictly more
\* than timeout seconds have passed since the most recent failure; the first call
\* after that moves it OPEN -> HALF_OPEN and runs as the recovery probe; apart from
\* reset() the breaker never goes from OPEN to CLOSED in one step.
C6_ProbeOnlyAfterCoolDown ==
    /\ (last.op = "call" /\ last.pre.state = OPEN) =>
          /\ last.preFailAt # None
          /\ last.pre.last_failure_time = last.preFailAt
          /\ last.invoked <=> (last.at - last.preFailAt > timeout)
          /\ last.invoked => last.during = HALF_OPEN
    /\ (last.op # "none" /\ last.pre.state = OPEN /\ cb.state = CLOSED) => last.op = "reset"

\* the call made timeout + 1 seconds after the last failure ran as the probe
C6_Witness ==
    /\ last.op = "call"
    /\ last.pre.state = OPEN
    /\ last.at - last.preFailAt = timeout + 1
    /\ last.invoked
    /\ last.during = HALF_OPEN

C7_ReopenReached ==
    /\ last.op = "call"
    /\ last.pre.state = HALF_OPEN
    /\ last.result = "error"
    /\ last.preHalfSucc = 1
    /\ cb.state = OPEN

----------------------------------------------------------------------------
(* Properties of process_scanned_pdf (SpecJob) *)

\* the errors of a page named by C1: barcode undecodable, template fetch failed or
\* timed out, no template for the page, bubble detection raised
PageFailures == {"barcode", "fetch", "no_template", "detection"}

\* pages on which bubble detection returned its results
DetectedPages == {i \in 1..Len(pageLog) : pageLog[i].error \notin PageFailures}

\* the records that page i of the upload added to all_results
PageAdded(i) ==
    SubSeq(all_results, pageLog[i].before + 1,
           IF i < Len(pageLog) THEN pageLog[i + 1].before ELSE Len(all_results))

\* the pages' records lie one after the other in all_results, in page order
PagesInOrder ==
    /\ Len(pageLog) > 0 => pageLog[1].before = 0
    /\ \A i \in 1..Len(pageLog) : pageLog[i].before <= Len(all_results)
    /\ \A i \in 1..(Len(pageLog) - 1) : pageLog[i].before <= pageLog[i + 1].before

\* C1: a page whose barcode cannot be decoded, whose template fetch fails or returns
\* no template for it, or whose bubble detection raises adds no attendance record;
\* every later page is still processed; and what another page contributes does not
\* depend on the failure: each page on which detection returned adds one record for
\* each of its own templates, under its own lecture_id.
C1_FailedPageAddsNothing ==
    /\ PagesInOrder
    /\ \A i \in 1..Len(pageLog) :
          pageLog[i].error \in PageFailures => PageAdded(i) = <<>>
    /\ \A i \in DetectedPages :
          /\ Len(PageAdded(i)) = Len(pageLog[i].templates)
          /\ \A k \in 1..Len(PageAdded(i)) :
                /\ PageAdded(i)[k].lecture_id = pageLog[i].barcode.lecture_id
                /\ PageAdded(i)[k].fill_percentage = pageLog[i].fills[k]
    /\ pc = "pages" => Len(pageLog) = page_num
    /\ pc = "done" => Len(pageLog) = image_paths

\* a finished two-page job whose first page failed in bubble detection and whose
\* second page contributed its records
C1_Witness ==
    /\ pc = "done"
    /\ Len(pageLog) = 2
    /\ pageLog[1].error = "detection"
    /\ pageLog[2].error = ""
    /\ Len(all_results) = 3

\* C2: for a completed job total_students is the number of attendance records,
\* present the number of records with status present, absent = total_students -
\* present, and attendance_percentage is present / total_students x 100 rounded to
\* two decimals (here in hundredths of a percent), or 0 when total_students is 0.
C2_StatisticsOfCompletedJob ==
    pc = "done" =>
        LET records == result.attendance_records
            n == Len(records)
            p == Cardinality({i \in 1..n : records[i].status = "present"})
            pct == result.attendance_percentage
        IN  /\ records = all_results
            /\ result.total_students = n
            /\ result.present = p
            /\ result.absent = n - p
            /\ result.present + result.absent = result.total_students
            /\ n = 0 => pct = 0
            /\ n > 0 => /\ 2 * (pct * n - p * 10000) <= n
                        /\ 2 * (p * 10000 - pct * n) <= n

\* a completed job with 2 of 3 students present: 66.67 percent
C2_Witness ==
    /\ pc = "done"
    /\ result.total_students = 3
    /\ result.present = 2
    /\ result.attendance_percentage = 6667

\* number of positions of a sequence that hold x
Occurrences(seq, x) == Cardinality({i \in 1..Len(seq) : seq[i] = x})

\* the rows the template table holds for a lecture and page
StoredTemplates(lecture, page) ==
    LET Match(r) == r.lecture_id = lecture /\ r.page_number = page
    IN  SelectSeq(store, Match)

\* C3: attendance_records is the concatenation, over the pages in upload order, of
\* exactly one record per stored template of each page on which detection returned,
\* in the templates' row order: no templated student is dropped, duplicated or
\* reordered.
C3_OneRecordPerTemplateInRowOrder ==
    /\ PagesInOrder
    /\ \A i \in 1..Len(pageLog) : i \notin DetectedPages => PageAdded(i) = <<>>
    /\ \A i \in DetectedPages :
          LET stored == StoredTemplates(pageLog[i].barcode.lecture_id, pageLog[i].barcode.page)
              added == PageAdded(i)
              used == pageLog[i].templates
          IN  /\ Len(used) = Len(stored)
              /\ \A k \in 1..Len(stored) : Occurrences(used, stored[k]) = Occurrences(stored, stored[k])
              /\ \A k \in 1..(Len(used) - 1) : used[k].row_number <= used[k + 1].row_number
              /\ Len(added) = Len(used)
              /\ \A k \in 1..Len(used) : added[k].student_id = used[k].student_id

\* a finished job with two detected pages, one of a lecture generated twice (two
\* templates share a row number) and one of another lecture
C3_Witness ==
    /\ pc = "done"
    /\ DetectedPages = {1, 2}
    /\ Len(pageLog[1].templates) = 3
    /\ pageLog[2].barcode.lecture_id = "L1"
    /\ pageLog[1].barcode.lecture_id = "L1"
    /\ Len(all_results) = 6

\* C15: a bubble is classified filled exactly when its fill fraction is greater than or
\* equal to the fill threshold; a fraction equal to the threshold is classified filled.
\* Checked on the records of every page on which detection returned: the record's
\* status is present exactly when the measured fraction is not below the threshold.
C15_FilledIffAtLeastThreshold ==
    \A i \in DetectedPages :
        \A k \in 1..Len(PageAdded(i)) :
            LET fraction == pageLog[i].fills[k]
                filled == PageAdded(i)[k].status = "present"
            IN  /\ filled <=> ~(fraction < bubble_fill_threshold)
                /\ fraction = bubble_fill_threshold => filled

\* a detected page with one bubble exactly at the threshold, reported present, and one
\* just below it, reported absent
C15_Witness ==
    /\ pc = "done"
    /\ \E k \in 1..Len(all_results) :
          /\ all_results[k].fill_percentage = bubble_fill_threshold
          /\ all_results[k].status = "present"
    /\ \E k \in 1..Len(all_results) :
          /\ all_results[k].fill_percentage = bubble_fill_threshold - 1
          /\ all_results[k].status = "absent"

\* pages on which bubble detection ran and found fewer than 4 calibration markers
UncalibratedPages ==
    {i \in 1..Len(pageLog) : pageLog[i].positions # "none" /\ ~pageLog[i].fourMarkers}

\* C12: when fewer than 4 calibration markers (including zero) are found on a scanned
\* page, the page fails as a page-level error: process_bubble_sheet_page produces no
\* results for it, the page contributes zero students, and the job continues.
C12_FewerThanFourMarkersFailsPage ==
    /\ \A i \in UncalibratedPages :
          /\ pageLog[i].error \in PageFailures
          /\ PageAdded(i) = <<>>
    /\ pc = "pages" => Len(pageLog) = page_num
    /\ pc = "done" => Len(pageLog) = image_paths

\* what the code does in the case of C12: a page with fewer than 4 markers is read at
\* the rows' expected positions and contributes one record per template, and the job
\* continues
C12_FewerThanFourMarkersFallsBack ==
    /\ \A i \in UncalibratedPages :
          /\ pageLog[i].positions = "expected"
          /\ Len(PageAdded(i)) = Len(pageLog[i].templates)
          /\ Len(PageAdded(i)) > 0
    /\ pc = "pages" => Len(pageLog) = page_num
    /\ pc = "done" => Len(pageLog) = image_paths

\* distance of a fill fraction from the threshold, in percent
DistanceFromThreshold(fill_percentage) ==
    IF fill_percentage >= bubble_fill_threshold
    THEN fill_percentage - bubble_fill_threshold
    ELSE bubble_fill_threshold - fill_percentage

\* C16: every detection result has a confidence in [0,1] (here 0..100) that is the
\* distance of its fill fraction from the threshold, normalized and clamped: a
\* fraction at the threshold gets the lowest confidence (0), and a result whose
\* fraction is farther from the threshold never gets a lower confidence than one
\* whose fraction is nearer, on the filled side as on the unfilled side.
C16_ConfidenceIsDistanceFromThreshold ==
    /\ \A k \in 1..Len(all_results) :
          /\ all_results[k].confidence \in 0..100
          /\ all_results[k].fill_percentage = bubble_fill_threshold =>
                all_results[k].confidence = 0
    /\ \A k, m \in 1..Len(all_results) :
          DistanceFromThreshold(all_results[k].fill_percentage)
             <= DistanceFromThreshold(all_results[m].fill_percentage)
          => all_results[k].confidence <= all_results[m].confidence

\* what the code does in the case of C16: the confidence is within [0,1], and a filled
\* bubble always gets confidence 1.0, whatever its distance from the threshold
C16_FilledAlwaysFullConfidence ==
    \A k \in 1..Len(all_results) :
        /\ all_results[k].confidence \in 0..100
        /\ all_results[k].status = "present" => all_results[k].confidence = 100

----------------------------------------------------------------------------
(* Properties of send_to_attendance_service (SpecSend) *)

\* the k-th record of the job was the third failed submission in a row and opened the
\* breaker
OpenedByThreeFailures(k) ==
    /\ k >= failure_threshold
    /\ \A j \in (k - failure_threshold + 1)..k : sendLog[j].result = "error"
    /\ sendLog[k].preState = CLOSED
    /\ sendLog[k].postState = OPEN

\* C8: once 3 consecutive record submissions of a job have failed and opened the
\* breaker, every later record of the same job submitted before the cool-down has
\* elapsed is rejected without an HTTP attempt and is counted in cb_rejected, not in
\* errors.
C8_RejectedCountedAsCbRejected ==
    \A k \in 1..Len(sendLog) :
        OpenedByThreeFailures(k) =>
            \A m \in (k + 1)..Len(sendLog) :
                (sendLog[m].preState = OPEN /\ sendLog[m].coolingDown) =>
                    /\ sendLog[m].result = "rejected"
                    /\ ~sendLog[m].invoked
                    /\ sendLog[m].counted = "cb_rejected"
                    /\ cb_rejected_count >= 1

\* what the code does in the case of C8: the later records are rejected without an
\* HTTP attempt (this part of C8 holds), but each of them is counted in errors
C8_RejectedWithoutAttempt ==
    \A k \in 1..Len(sendLog) :
        OpenedByThreeFailures(k) =>
            \A m \in (k + 1)..Len(sendLog) :
                (sendLog[m].preState = OPEN /\ sendLog[m].coolingDown) =>
                    /\ sendLog[m].result = "rejected"
                    /\ ~sendLog[m].invoked

\* C9: send_to_attendance_service never raises; it passes each record exactly once,
\* in list order, through the breaker, and the counters it returns satisfy
\* success + errors + cb_rejected = total_records = number of records.
C9_EveryRecordCountedOnce ==
    /\ send_pc # "raised"
    /\ send_pc \in {"loop", "returned"} =>
          /\ sent <= Len(attendance_records)
          /\ Len(sendLog) = sent
          /\ \A k \in 1..sent :
                /\ sendLog[k].record = attendance_records[k]
                /\ sendLog[k].result \in {"ok", "error", "rejected"}
                /\ sendLog[k].invoked <=> sendLog[k].result # "rejected"
          /\ success_count = Cardinality({k \in 1..sent : sendLog[k].result = "ok"})
          /\ success_count + error_count + cb_rejected_count = sent
          /\ Len(errors) = sent - success_count
    /\ send_pc = "returned" =>
          /\ sent = Len(attendance_records)
          /\ send_result.total_records = Len(attendance_records)
          /\ send_result.success + send_result.errors + send_result.cb_rejected
                = send_result.total_records

\* a returned job of four records: one rejected by the open breaker, two sent
\* successfully, one failed
C9_Witness ==
    /\ send_pc = "returned"
    /\ send_result.total_records = 4
    /\ send_result.success = 2
    /\ \E k \in 1..4 : sendLog[k].result = "rejected"
    /\ \E k \in 1..4 : sendLog[k].result = "error"

----------------------------------------------------------------------------
(* Properties of the breaker called by two threads at once (SpecConc) *)

\* the two calls began on an OPEN breaker whose cool-down had elapsed
RoundAfterCoolDown ==
    /\ ~AllIdle
    /\ round_start.cb.state = OPEN
    /\ _should_attempt_reset(round_start.cb, round_start.at)

\* the breakers that running the two calls one after the other can leave, given how
\* each call ended
SequentialBreakers ==
    { call(call(round_start.cb, round_start.at, ok1, 0).cb, round_start.at, ok2, 0).cb :
        <<t1, t2, ok1, ok2>> \in
            { x \in Threads \X Threads \X BOOLEAN \X BOOLEAN :
                /\ x[1] # x[2]
                /\ call(round_start.cb, round_start.at, x[3], 0).result = thread_outcome[x[1]]
                /\ call(call(round_start.cb, round_start.at, x[3], 0).cb,
                        round_start.at, x[4], 0).result = thread_outcome[x[2]] } }

\* C10: when two jobs call the breaker concurrently after the cool-down of an OPEN
\* breaker has elapsed, at most one of them is admitted as the half-open probe (takes
\* the OPEN -> HALF_OPEN transition), and once both calls have ended the breaker is in
\* a state that running the two calls one after the other, in some order, produces.
C10_SingleProbeAndLinearizable ==
    RoundAfterCoolDown =>
        /\ Cardinality({t \in Threads : thread_probe[t]}) <= 1
        /\ (\A t \in Threads : thread_pc[t] = "done") => cb \in SequentialBreakers

----------------------------------------------------------------------------
(* Properties of the process endpoint (SpecProcess) *)

\* the upload being answered had one page, its barcode was decoded, and the template
\* table holds no row for the decoded lecture and page
OnlyPageUntemplated ==
    /\ req_pc = "responded"
    /\ upload.outcome = "processed"
    /\ image_paths = 1
    /\ Len(pageLog) = 1
    /\ pageLog[1].barcode # NoBarcode
    /\ StoredTemplates(pageLog[1].barcode.lecture_id, pageLog[1].barcode.page) = <<>>

\* C11: if the only page of an upload decodes to a lecture/page for which no template
\* is stored, the page fails, contributes zero students, and the status reported for
\* the job is not success.
C11_UntemplatedOnlyPageNotSuccess ==
    OnlyPageUntemplated =>
        /\ pageLog[1].error \in PageFailures
        /\ all_results = <<>>
        /\ reply.total_students = 0
        /\ reply.status # "success"

\* what the code does in the case of C11: the page fails and contributes no student,
\* nothing is submitted, and the job is answered 201 with status success and recorded
\* with status success
C11_UntemplatedOnlyPageReportedSuccess ==
    OnlyPageUntemplated =>
        /\ pageLog[1].error \in PageFailures
        /\ all_results = <<>>
        /\ reply.total_students = 0
        /\ ~upload.submitted
        /\ reply.code = 201
        /\ reply.status = "success"
        /\ processing_jobs[Len(processing_jobs)].status = "success"

\* rows of processing_jobs that carry the job id of the current upload
RowsOfJob == {i \in 1..Len(processing_jobs) : processing_jobs[i].job_id = job_id}

\* C13: if the uploaded document cannot be converted to page images, the whole job
\* fails: the endpoint returns an error status, no page is processed, no ProcessingJob
\* is persisted, no record is submitted downstream, and the breaker is unchanged.
C13_ConversionFailureFailsJob ==
    /\ (req_pc = "processing" /\ pc = "failed") =>
          /\ pageLog = <<>>
          /\ all_results = <<>>
          /\ processing_jobs = upload.table
          /\ send_pc = "idle"
          /\ cb = upload.cb
    /\ (req_pc = "responded" /\ upload.outcome = "conversion_failed") =>
          /\ reply.code = 500
          /\ reply.status = "error"
          /\ page_num = 0
          /\ pageLog = <<>>
          /\ all_results = <<>>
          /\ processing_jobs = upload.table
          /\ RowsOfJob = {}
          /\ ~upload.submitted
          /\ send_pc = "idle"
          /\ sendLog = <<>>
          /\ cb = upload.cb

\* the second upload failed in conversion while the breaker held two failures of the
\* first upload's records: error response, still one row, breaker as before
C13_Witness ==
    /\ req_pc = "responded"
    /\ upload.outcome = "conversion_failed"
    /\ reply.code = 500
    /\ Len(processing_jobs) = 1
    /\ cb.failure_count = 2
    /\ cb = upload.cb

\* C14 as stated: each upload accepted for processing (one that passed the checks of
\* the request and got a job id) results in exactly one persisted ProcessingJob record.
C14_OneJobRecordPerAcceptedUpload ==
    (req_pc = "responded" /\ upload.outcome # "rejected") =>
        /\ Cardinality(RowsOfJob) = 1
        /\ Len(processing_jobs) = Len(upload.table) + 1

\* C14 amended: each upload for which process_scanned_pdf returns results in exactly
\* one persisted ProcessingJob record, appended to the table, and no later step of the
\* request (the downstream submission included) modifies or deletes it or any earlier
\* record; an upload turned away or whose conversion fails adds none; job ids are
\* never shared by two records.
C14_OneJobRecordPerProcessedUpload ==
    /\ \A i, j \in 1..Len(processing_jobs) :
          processing_jobs[i].job_id = processing_jobs[j].job_id => i = j
    /\ req_pc = "processing" => (processing_jobs = upload.table /\ RowsOfJob = {})
    /\ req_pc = "sending" =>
          /\ processing_jobs = Append(upload.table, JobRow(job_id, result))
          /\ Cardinality(RowsOfJob) = 1
    /\ req_pc = "responded" =>
          IF upload.outcome = "processed"
          THEN /\ processing_jobs = Append(upload.table, JobRow(job_id, result))
               /\ Cardinality(RowsOfJob) = 1
          ELSE processing_jobs = upload.table

\* the second processed upload is answered after its records were submitted (one of
\* them failed): two rows, the first as it was, the second the job's own
C14_Witness ==
    /\ req_pc = "responded"
    /\ upload.outcome = "processed"
    /\ upload.submitted
    /\ error_count > 0
    /\ reply.status = "partial_success"
    /\ Len(upload.table) = 1
    /\ Len(processing_jobs) = 2
    /\ processing_jobs[2].job_id = job_id

\* C29: while the breaker is OPEN and its cool-down has not elapsed, every upload (a
\* request that carries a file part) is answered 503 with status circuit_breaker_open
\* before any work is done: the file is not stored, process_scanned_pdf has not run on
\* any page, no ProcessingJob is persisted, nothing is submitted, and the breaker's
\* state and counters are as they were when the request arrived.
C29_OpenBreakerRejectsUpload ==
    (/\ req_pc = "responded"
     /\ request.has_file
     /\ upload.cb.state = OPEN
     /\ upload.at - upload.cb.last_failure_time <= timeout) =>
        /\ reply.code = 503
        /\ reply.status = "circuit_breaker_open"
        /\ upload.outcome = "rejected"
        /\ ~upload.stored
        /\ pc = "idle" /\ pageLog = <<>> /\ result = NoResult
        /\ processing_jobs = upload.table
        /\ ~upload.submitted /\ send_pc = "idle" /\ sendLog = <<>>
        /\ cb = upload.cb

\* an upload with a well-formed name arrives while the breaker, opened by the failed
\* submissions of two earlier jobs, is still cooling down, and is answered 503
C29_Witness ==
    /\ req_pc = "responded"
    /\ request.has_file
    /\ EndsWith(request.filename, PdfSuffix)
    /\ upload.cb.state = OPEN
    /\ upload.at - upload.cb.last_failure_time <= timeout
    /\ upload.at > upload.cb.last_failure_time
    /\ reply.code = 503
    /\ Len(processing_jobs) >= 1
    /\ cb = upload.cb

----------------------------------------------------------------------------
(* Properties of the zipgrade page processor (SpecZip) *)

\* the marks of the scanned page that lie in the attendance area
MarksFound == SelectSeq(zip_page.circles, InAttendanceArea)

\* C17: in the variant that detects marks dynamically, if only k < n marks are found in
\* the attendance region of a page with n expected students, the first k students in
\* template order are paired with the detected marks sorted top-to-bottom, and the
\* remaining n - k students each get is_filled = False with confidence 0.0, without
\* an error being raised.
C17_UndetectedStudentsAbsent ==
    LET n == Len(zip_page.bubble_templates)
        k == Len(MarksFound)
    IN  (zip_page.readable /\ zip_page.calibration /\ k < n) =>
            /\ zip_pc # "raised"
            /\ zip_pc = "returned" =>
                  /\ Len(zip_results) = n
                  /\ \A i \in 1..n :
                        zip_results[i].student_id = zip_page.bubble_templates[i].student_id
                  /\ \A i \in 1..k :
                        \E j \in 1..k :
                            /\ zip_results[i].bubble_center = <<MarksFound[j].x, MarksFound[j].y>>
                            /\ zip_results[i].fill_percentage = MarksFound[j].fill
                            /\ zip_results[i].is_filled =
                                   (MarksFound[j].fill >= zip_bubble_fill_threshold)
                  /\ \A i, j \in 1..k :
                        i < j => /\ zip_results[i].bubble_center # zip_results[j].bubble_center
                                 /\ zip_results[i].bubble_center[2] <= zip_results[j].bubble_center[2]
                  /\ \A i \in (k + 1)..n :
                        /\ zip_results[i].is_filled = FALSE
                        /\ zip_results[i].confidence = 0

\* three students, the Hough transform reported the lower mark first, a circle left of
\* the column in between: the first student got the upper mark (filled), the second the
\* lower one, the third no mark
C17_Witness ==
    /\ zip_pc = "returned"
    /\ Len(zip_page.bubble_templates) = 3
    /\ Len(zip_page.circles) = 3
    /\ Len(MarksFound) = 2
    /\ zip_page.circles[1].y = 300
    /\ Len(zip_results) = 3
    /\ zip_results[1].bubble_center = <<500, 200>>
    /\ zip_results[1].is_filled
    /\ zip_results[2].bubble_center = <<500, 300>>
    /\ ~zip_results[3].is_filled
    /\ zip_results[3].confidence = 0

----------------------------------------------------------------------------
(* Properties of the barcode codec (SpecBarcode) *)

\* the mapping saved when the printed page was encoded still leads to its lecture
MappingIntact ==
    LET lecture_hash == SubSeq(bar_sheet.code, 1, 8)
    IN  /\ lecture_hash \in DOMAIN _lecture_mapping
        /\ _lecture_mapping[lecture_hash] = bar_sheet.lecture_id

\* the decoder returned the page and total of the printed page, and its lecture_id when
\* the mapping is intact
RoundTrip ==
    /\ bar_decoded.kind = "itf"
    /\ bar_decoded.page = bar_sheet.page
    /\ bar_decoded.total_pages = bar_sheet.total_pages
    /\ MappingIntact => bar_decoded.lecture_id = bar_sheet.lecture_id

\* C18: for every lecture_id and every page number and total page count the generator
\* can emit, decode_barcode_data(generate_barcode_data(lecture_id, page, total)) returns
\* the same page and total_pages, and the same lecture_id whenever the mapping saved at
\* encode time is intact.
C18_RoundTripRecoversPage == bar_pc = "decoded" => RoundTrip

\* what the code does in the case of C18: the round trip holds for sheets of fewer than
\* 100 pages, and the code of a sheet of 100 pages or more is rejected by the decoder
C18_RoundTripBelowHundredPages ==
    bar_pc = "decoded" =>
        IF bar_sheet.total_pages < 100 THEN RoundTrip ELSE bar_decoded = FormatError

\* the payload is exactly 12 decimal digits
TwelveDigits(payload) == Len(payload) = 12 /\ isdigit(payload)

\* C19: decoding fails with a format error for every payload that is not exactly 12
\* decimal digits (wrong length, or a non-digit character at any position, the
\* 8-character hash part included), and never returns a lecture/page result for it.
C19_MalformedPayloadRejected ==
    (bar_pc \in {"decoded", "decoded_payload", "read"} /\ ~TwelveDigits(bar_payload)) =>
        bar_decoded = FormatError

\* what the code does in the case of C19: decode_barcode_data rejects every payload of
\* a wrong length, and read_barcode never takes a payload that is not 12 digits for
\* the 12-digit format
C19_WrongLengthRejected ==
    /\ (bar_pc \in {"decoded", "decoded_payload"} /\ Len(bar_payload) # 12) =>
          bar_decoded = FormatError
    /\ (bar_pc = "read" /\ ~TwelveDigits(bar_payload)) => bar_decoded.kind # "itf"

----------------------------------------------------------------------------
(* Properties of the sheet generator (SpecGen) *)

\* the rows of bubble_templates stored for a page
TemplatesOfPage(p) == {k \in 1..Len(gen_table) : gen_table[k].page_number = p}

\* C20: generate_bubble_sheet for N >= 1 students emits ceil(N/30) pages; for each page
\* the number of templates stored equals the number of students assigned to it (30 on
\* every page but the last, the remainder on the last); every student gets exactly one
\* template, and row_number runs 1..N in roster order.
C20_OneTemplatePerStudent ==
    LET N == Len(gen_students)
        pages == Len(gen_drawn)
    IN  (gen_pc = "done" /\ N >= 1) =>
            /\ 30 * (pages - 1) < N
            /\ N <= 30 * pages
            /\ gen_total_pages = pages
            /\ \A p \in 1..pages :
                  /\ Cardinality(TemplatesOfPage(p)) = Len(gen_drawn[p])
                  /\ Len(gen_drawn[p]) = IF p < pages THEN 30 ELSE N - 30 * (pages - 1)
            /\ Len(gen_table) = N
            /\ \A i \in 1..N :
                  /\ Cardinality({k \in 1..Len(gen_table) :
                                     gen_table[k].student_id = gen_students[i].id}) = 1
                  /\ gen_table[i].student_id = gen_students[i].id
                  /\ gen_table[i].row_number = i

\* a roster of 61 students came out on three pages, the last with one student, whose
\* template has row_number 61
C20_Witness ==
    /\ gen_pc = "done"
    /\ Len(gen_students) = 61
    /\ Len(gen_drawn) = 3
    /\ Len(gen_drawn[2]) = 30
    /\ Len(gen_drawn[3]) = 1
    /\ Cardinality(TemplatesOfPage(3)) = 1
    /\ gen_table[61].row_number = 61
    /\ gen_table[61].student_id = gen_students[61].id

----------------------------------------------------------------------------
(* Further properties of the breaker used sequentially (SpecCB) *)

\* C27: in every state reachable by sequential call() and reset(): state = CLOSED
\* implies failure_count < failure_threshold; success_count > 0 only while state =
\* HALF_OPEN, and success_count < success_threshold always; state in {OPEN, HALF_OPEN}
\* implies last_failure_time is set.
C27_BreakerInvariants ==
    /\ cb.state = CLOSED => cb.failure_count < 3
    /\ cb.success_count > 0 => cb.state = HALF_OPEN
    /\ cb.success_count < 2
    /\ cb.state \in {OPEN, HALF_OPEN} => cb.last_failure_time # None

\* the breaker is HALF_OPEN right after one successful probe, with the failures that
\* opened it still counted
C27_Witness ==
    /\ cb.state = HALF_OPEN
    /\ cb.success_count = 1
    /\ cb.failure_count >= 3
    /\ cb.last_failure_time # None
    /\ last.op = "call"
    /\ last.result = "ok"

----------------------------------------------------------------------------
(* Properties of the recovering breaker (SpecRecover) *)

\* C28: if from some point on every downstream call succeeds, and calls keep arriving
\* while time advances, an OPEN breaker eventually reaches CLOSED again through
\* OPEN -> HALF_OPEN -> CLOSED without a manual reset; it cannot remain OPEN or
\* HALF_OPEN forever.
C28_OpenBreakerRecovers ==
    /\ [][(cb.state = OPEN => cb'.state \in {OPEN, HALF_OPEN})
          /\ (cb.state # CLOSED /\ cb'.state = CLOSED => cb.state = HALF_OPEN)]_vars
    /\ (healthy /\ cb.state \in {OPEN, HALF_OPEN}) ~> (cb.state = CLOSED)

\* the service has recovered and the breaker, opened by three failures, was closed by
\* the second successful probe
C28_Witness ==
    /\ healthy
    /\ cb.state = CLOSED
    /\ last.op = "call"
    /\ last.pre.state = HALF_OPEN
    /\ last.pre.success_count = 1
    /\ last.pre.failure_count >= 3
    /\ last.result = "ok"

----------------------------------------------------------------------------
(* Properties of the submissions of the process endpoint (SpecSubmit) *)

\* the records of the upload that were not submitted successfully (failed downstream
\* or turned away by the breaker)
NotSubmitted == {i \in 1..Len(sendLog) : sendLog[i].result # "ok"}

\* C30: when submission is requested and at least one record was detected, the
\* response has status success only if every record was submitted successfully
\* (success = total_records, errors = 0, cb_rejected = 0) and the breaker is CLOSED
\* afterwards; any failed or rejected record gives a status other than success.
C30_SuccessOnlyIfAllSubmitted ==
    (final_status # "" /\ Len(attendance_records) >= 1) =>
        /\ Len(sendLog) = Len(attendance_records)
        /\ final_status = "success" =>
              /\ NotSubmitted = {}
              /\ send_result.success = send_result.total_records
              /\ send_result.total_records = Len(attendance_records)
              /\ send_result.errors = 0
              /\ send_result.cb_rejected = 0
              /\ cb.state = CLOSED
        /\ NotSubmitted # {} => final_status # "success"
        /\ cb.state # CLOSED => final_status # "success"

\* the records of an upload are all accepted downstream, the first of them as the
\* probe of a breaker that had opened, and the second closes it: success
C30_Witness ==
    /\ final_status = "success"
    /\ Len(sendLog) >= 2
    /\ sendLog[1].preState = OPEN
    /\ NotSubmitted = {}
    /\ cb.state = CLOSED

----------------------------------------------------------------------------
(* Properties of the generation service (SpecSheets) *)

\* C23: after any sequence of generations (the same lecture_id twice, a roster with
\* the same student id twice), the template store holds at most one BubbleTemplate
\* per (lecture_id, page_number, student_id).
C23_OneTemplatePerKey ==
    \A i, j \in 1..Len(sheet_templates) :
        (/\ sheet_templates[i].lecture_id = sheet_templates[j].lecture_id
         /\ sheet_templates[i].page_number = sheet_templates[j].page_number
         /\ sheet_templates[i].student_id = sheet_templates[j].student_id) => i = j

\* C24: a request to generate a sheet for an empty student list is answered with an
\* error that says so (400, 'No students provided'), and it leaves the template
\* store, the barcode mapping and the PDF files as they were.
C24_EmptyRosterRejected ==
    (/\ sheet_last.op = "endpoint"
     /\ sheet_last.data.has_students
     /\ sheet_last.data.students = <<>>) =>
        /\ sheet_reply.code = 400
        /\ sheet_reply.status = "error"
        /\ sheet_reply.error = "No students provided"
        /\ sheet_templates = sheet_last.templates
        /\ sheet_mapping = sheet_last.mapping
        /\ sheet_pdfs = sheet_last.pdfs

\* an empty list is turned away by a service that already holds sheets
C24_Witness ==
    /\ sheet_last.op = "endpoint"
    /\ sheet_last.data.has_students
    /\ sheet_last.data.students = <<>>
    /\ sheet_reply.code = 400
    /\ Len(sheet_templates) >= students_per_page + 1
    /\ sheet_mapping # {}
    /\ sheet_pdfs = sheet_last.pdfs

----------------------------------------------------------------------------
(* Properties of the bulkhead (SpecBulkhead) *)

\* the callers executing the protected function
Executing == {t \in Callers : bh_pc[t] = "running"}

\* the callers that hold a permit
Holding == {t \in Callers : bh_pc[t] \in {"acquired", "running", "returned", "raised",
                                          "releasing"}}

\* C25: in every interleaving of the callers, at most max_concurrent of them execute
\* the protected function at the same time; every admitted call gives its permit
\* back when it returns or raises (the permits out are exactly those of the callers
\* inside the wrapper), so that once no call is in progress active_requests is 0 and
\* all max_concurrent permits are free.
C25_BulkheadLimitsAndReleases ==
    /\ Cardinality(Executing) <= max_concurrent
    /\ _semaphore + Cardinality(Holding) = max_concurrent
    /\ _active_count = Cardinality({t \in Callers : bh_pc[t] \in {"running", "returned",
                                                                  "raised"}})
    /\ (\A t \in Callers : bh_pc[t] = "idle") =>
          /\ _active_count = 0
          /\ _semaphore = max_concurrent

\* all calls have finished: some returned, one raised, one was turned away while
\* both permits were out
C25_Witness ==
    /\ \A t \in Callers : bh_pc[t] = "idle"
    /\ bh_calls = MaxCalls
    /\ _total_accepted >= 3
    /\ _total_rejected >= 1
    /\ bh_raises >= 1
    /\ bh_raises < _total_accepted
    /\ _active_count = 0
    /\ _semaphore = max_concurrent

----------------------------------------------------------------------------
(* Properties of record_attendance (SpecAttendance) *)

\* the stored records of the key (student_id, course_id, date, session_name) of a
RowsOfKey(a) ==
    {i \in 1..Len(attendance_table) :
        /\ attendance_table[i].student_id = a.student_id
        /\ attendance_table[i].course_id = a.course_id
        /\ attendance_table[i].date = a.date
        /\ attendance_table[i].session_name = a.session_name}

\* C26: record_attendance is idempotent: however calls with the same (student_id,
\* course_id, date, session_name) are repeated and interleaved with other calls,
\* exactly one record is stored for that key, and every such call reports success
\* with that record's id.
C26_RecordAttendanceIdempotent ==
    \A k \in 1..Len(att_log) :
        /\ att_log[k].success
        /\ Cardinality(RowsOfKey(att_log[k].args)) = 1
        /\ \A i \in RowsOfKey(att_log[k].args) : att_log[k].record_id = attendance_table[i].id

\* what the code does keep: the table never holds two records of one key, and a call
\* that reports success names a stored record with the call's idempotency key
C26_AtMostOneRecordPerKey ==
    /\ \A i, j \in 1..Len(attendance_table) :
          attendance_table[i].idempotency_key = attendance_table[j].idempotency_key => i = j
    /\ \A k \in 1..Len(att_log) :
          /\ Cardinality(RowsOfKey(att_log[k].args)) <= 1
          /\ att_log[k].success =>
                \E i \in 1..Len(attendance_table) :
                    /\ attendance_table[i].id = att_log[k].record_id
                    /\ attendance_table[i].idempotency_key = _generate_key(att_log[k].args)

----------------------------------------------------------------------------
(* Properties of the page geometry (SpecGeometry) *)

\* the frame spanned by the four markers, as the page was drawn
FrameWidth == _bubble_area_bounds.right_x - _bubble_area_bounds.left_x
FrameHeight == _bubble_area_bounds.top_y - _bubble_area_bounds.bottom_y

\* the point of the aligned image where the detector looks for row i lies inside the
\* bubble of row i: measured from the top-left marker, x to the right and y downward,
\* it is no further than bubble_radius from the bubble's centre in either direction
LooksInsideOwnBubble(i) ==
    LET dx == geo_templates[i].bubble_x - _bubble_area_bounds.left_x
        dy == _bubble_area_bounds.top_y - geo_templates[i].bubble_y
    IN  /\ geo_found[i].bubble_x * FrameWidth >= (dx - bubble_radius) * target_width
        /\ geo_found[i].bubble_x * FrameWidth <= (dx + bubble_radius) * target_width
        /\ geo_found[i].bubble_y * FrameHeight >= (dy - bubble_radius) * target_height
        /\ geo_found[i].bubble_y * FrameHeight <= (dy + bubble_radius) * target_height

\* C21: for every student row of a page, the stored ratios multiplied by the width
\* and height of the marker frame, as the detector does it (origin at the top-left
\* marker, y downward), give the centre of that student's bubble (here: a point
\* within the bubble).
C21_RatiosLocateOwnBubble ==
    \A i \in 1..Len(geo_found) : LooksInsideOwnBubble(i)

\* what does hold: horizontally the detector is on the bubble's centre, vertically
\* it is on the centre of the bubble of the row mirrored in the frame (row
\* geo_count + 1 - i)
C21_RatiosLocateMirroredRow ==
    \A i \in 1..Len(geo_found) :
        LET dx == geo_templates[i].bubble_x - _bubble_area_bounds.left_x
            mirrored == geo_templates[geo_count + 1 - i]
            dy == _bubble_area_bounds.top_y - mirrored.bubble_y
        IN  /\ geo_found[i].bubble_x = (dx * target_width) \div FrameWidth
            /\ geo_found[i].bubble_y = (dy * target_height) \div FrameHeight

\* C22: every stored bubble_x_ratio and bubble_y_ratio lies in [0, 1], for every row
\* of every page of 1 to 30 students.
C22_RatiosWithinUnitInterval ==
    \A i \in 1..Len(geo_templates) :
        /\ geo_templates[i].bubble_x_ratio.den > 0
        /\ geo_templates[i].bubble_y_ratio.den > 0
        /\ 0 <= geo_templates[i].bubble_x_ratio.num
        /\ geo_templates[i].bubble_x_ratio.num <= geo_templates[i].bubble_x_ratio.den
        /\ 0 <= geo_templates[i].bubble_y_ratio.num
        /\ geo_templates[i].bubble_y_ratio.num <= geo_templates[i].bubble_y_ratio.den

\* a full page: the first row's ratio is 242/252, the last row's 10/252
C22_Witness ==
    /\ geo_pc = "detecting"
    /\ geo_count = students_per_page
    /\ Len(geo_templates) = students_per_page
    /\ geo_templates[1].bubble_y_ratio = [num |-> 242, den |-> 252]
    /\ geo_templates[students_per_page].bubble_y_ratio = [num |-> 10, den |-> 252]
    /\ geo_templates[students_per_page].bubble_x_ratio = [num |-> 15, den |-> 25]

====
